---- MODULE Spec2Model ----
(***************************************************************************)
(* A model of the trench-coat provisioning tool (warped-pinball):          *)
(*   - src/src/util.py   wait_for, graceful_exit                           *)
(*   - src/src/core.py   get_all_boards_into_bootloader, flash_firmware,   *)
(*                       flash_software                                    *)
(*   - src/src/ray.py    Ray (registry, write_update_to_board,             *)
(*                       get_files_to_update)                              *)
(* Time is counted in ticks of 0.5 s, the sleep of one wait_for iteration. *)
(***************************************************************************)
EXTENDS Integers, Sequences, FiniteSets, TLC

\* ------------------------------------------------------------------ bounds
\* Number of physical boards on the bench.
NBoards == 2
\* The timeout, in whole seconds, that the pipeline's waits use in the model
\* (core.py passes 60; no property checked here depends on the value).
StepTimeout == 1
\* Largest timeout, in whole seconds, drawn for a stand-alone wait_for call.
MaxTimeout == 2
\* Extra ticks one wait_for iteration may take beyond its 0.5 s sleep.
MaxLag == 1

\* ------------------------------------------------------- program constants
\* wait_for sleeps 0.5 s per iteration: two ticks make a second.
TicksPerSecond == 2
\* dots = (dots + 1) % 5
DotWrap == 5

\* Python's None as a timeout: a value no number of seconds takes.
None == -1

\* Cap on the polls of a wait_for call that has no timeout: one more than a
\* call with the largest timeout can make.
PollCap == TicksPerSecond * (MaxTimeout + StepTimeout) + 2

Boards == 1 .. NBoards
\* Mount points a bootloader volume can appear under (one spare, so that a
\* board can come back under a path it did not have before).
Vols == 1 .. (NBoards + 1)
\* Transport objects: Ray b is built by get_all_boards_into_bootloader for
\* board b, Ray NBoards + b by flash_software.
RayIds == 1 .. (2 * NBoards)

VARIABLES
    \* --- the boards (the environment)
    mode,       \* board -> "runtime" | "boot" | "gone" (re-enumerating) | "unplugged"
    nxt,        \* board -> how a gone board comes back: "boot" | "bootNuked" | "runtime"
    vol,        \* board -> mount point while in bootloader mode, else 0
    pending,    \* board -> "none" | "enter" | "nuke" | "fw" | "reset"
    log,        \* board -> sequence of the operations it has been given
    \* --- Ray._instances and the serial channels
    instances,  \* set of registered transports
    serOpen,    \* set of transports whose channel is open
    \* --- wait_for
    wpc,        \* "idle" | "check" | "poll" | "returned" | "TimeoutError" | "exited"
    wpred,      \* which listen_func is polled
    wtimeout,   \* None or whole seconds
    elapsed,    \* ticks since start_time
    polls,      \* calls of listen_func so far
    dots,
    lastVal,    \* return_val of the last poll
    everTruthy, \* some poll was truthy (history)
    seen,       \* what the polls of this cycle observed (history): "all", "drop", "back"
    \* --- flash_firmware / flash_software
    pc,
    initial_drives,
    initial_boards,
    bootloader_drives,  \* the list of mount points flash_firmware holds
    todo,               \* what the running for-loop has still to visit
    boards,             \* flash_software's list of transports
    extract_dir,        \* the temporary directory exists
    \* --- Ray.write_update_to_board and the board's filesystem
    update_files,   \* the bundle: sequence of file_info
    bdirs,          \* the directories on the board
    bfiles,         \* the files on the board: path -> content
    bf,             \* the board's global f
    hash_checks,    \* the board's global hash_checks
    executed,       \* the execute_file calls the board has run in this transfer (history)
    tpc,            \* "off" | "start" | "send" | "returned" | "raised" | "KeyboardInterrupt"
    pass,           \* 1 for the first transfer of the bundle, 2 for the second, ...
    results,        \* how the earlier transfers ended
    board_index,    \* what sha256_index() returned to get_files_to_update
    required_files,
    script,         \* the blocks still to submit
    sent,           \* the blocks submitted by this transfer
    reply,          \* the text send_command returned for the last query
    \* --- calls on a transport (Ray.__init__, open, close, close_all, send_command)
    built,      \* the transports the caller holds
    last,       \* the call made last: what it was given, wrote and did
    rpc,        \* where send_command's read loops are: "idle" | "ack" | "wait" | "rest"
    rx,         \* what the board sends that has not been read yet
    buf,        \* send_command's buf
    \* --- one file's base64 body going through the w lines, for any chunk limit
    chunk_limit,    \* the value of COMMAND_CHUNK_SIZE the script is generated with
    file_size,      \* the bytes of the file
    offset,         \* the i of range(0, len(file_contents), chunk_size) that comes next
    yielded,        \* the characters of the w lines yielded so far
    f_len,          \* the bytes the board has written to f
    f_good,         \* the bytes written are the first f_len bytes of the file
    w_raised,       \* a w line raised on the board
    cpc,            \* "off" | "w" | "closed"
    \* --- the update bundle: flash_software's format check, select_software and
    \* --- validate_update_file
    software_format,    \* "unread", or what the first line gives: "1.0" | "2.0" | "absent"
    temp_file,      \* the characters of the downloaded file
    sig_data,       \* what the signature line of the file holds
    spc,            \* "off" | "downloaded" | "validated" | "returned" | "exited" | "raised"
    valid,          \* "none", or how validate_update_file ended
    hashed,         \* the text validate_update_file hashed
    \* --- the process
    outcome,    \* "running" | "done" | "exit0" | "exit1" | the exception that ended it
    prompted    \* graceful_exit asked for ENTER

boardVars == <<mode, nxt, vol, pending, log>>
rayVars == <<instances, serOpen>>
waitVars == <<wpc, wpred, wtimeout, elapsed, polls, dots, lastVal, everTruthy, seen>>
pipeVars == <<pc, initial_drives, initial_boards, bootloader_drives, todo, boards, extract_dir>>
procVars == <<outcome, prompted>>
transferVars == <<update_files, bdirs, bfiles, bf, hash_checks, executed, tpc, pass, results,
                  board_index, required_files, script, sent, reply>>
benchVars == <<boardVars, rayVars, waitVars, pipeVars, procVars>>
callVars == <<built, last, rpc, rx, buf>>
chunkVars == <<chunk_limit, file_size, offset, yielded, f_len, f_good, w_raised, cpc>>
bundleVars == <<software_format, temp_file, sig_data, spc, valid, hashed>>
vars == <<benchVars, transferVars, callVars, chunkVars, bundleVars>>

\* ------------------------------------------------------------ the probes
\* list_rpi_rp2_drives(): the mount points that hold INFO_UF2.TXT now.
list_rpi_rp2_drives == { vol[b] : b \in { x \in Boards : mode[x] = "boot" } }

\* Ray.find_board_ports(): the serial ports with the Pico's VID/PID now
\* (a port is named by the board behind it).
find_board_ports == { b \in Boards : mode[b] = "runtime" }

\* The board mounted at a mount point, as a set (empty when none is).
BoardAt(d) == { b \in Boards : mode[b] = "boot" /\ vol[b] = d }

\* ------------------------------------------------------------- the boards
\* A board acts on what it was given and drops off the bus.
BoardDrops(b) ==
    /\ outcome = "running"
    /\ pending[b] # "none"
    /\ mode[b] # "gone"
    /\ pending[b] \in {"enter", "reset"} => mode[b] = "runtime"
    /\ pending[b] \in {"nuke", "fw"} => mode[b] = "boot"
    /\ mode' = [mode EXCEPT ![b] = "gone"]
    /\ nxt' = [nxt EXCEPT ![b] = CASE pending[b] = "enter" -> "boot"
                                    [] pending[b] = "nuke" -> "bootNuked"
                                    [] OTHER -> "runtime"]
    /\ vol' = [vol EXCEPT ![b] = 0]
    /\ pending' = [pending EXCEPT ![b] = "none"]
    /\ UNCHANGED <<log, rayVars, waitVars, pipeVars, procVars>>
    /\ UNCHANGED transferVars
    /\ UNCHANGED <<callVars, chunkVars, bundleVars>>

\* A board that dropped off re-enumerates, as a volume (under any free mount
\* point) or as a serial port.
BoardAppears(b) ==
    /\ outcome = "running"
    /\ mode[b] = "gone"
    /\ mode' = [mode EXCEPT ![b] = IF nxt[b] = "runtime" THEN "runtime" ELSE "boot"]
    /\ IF nxt[b] = "runtime"
          THEN vol' = vol
          ELSE \E d \in Vols \ list_rpi_rp2_drives : vol' = [vol EXCEPT ![b] = d]
    /\ log' = [log EXCEPT ![b] = IF nxt[b] = "bootNuked" THEN Append(@, "nuked") ELSE @]
    /\ UNCHANGED <<nxt, pending, rayVars, waitVars, pipeVars, procVars>>
    /\ UNCHANGED transferVars
    /\ UNCHANGED <<callVars, chunkVars, bundleVars>>

\* ----------------------------------------------------- Ray and the process
\* Ray.close() that closes the channel and stays in the registry.
RayClose_registered(r, st) ==
    [inst |-> st.inst, open |-> st.open \ {r}]

\* Ray.close(): close the channel if it is open, leave the registry.
RayClose(r, st) ==
    [inst |-> st.inst \ {r}, open |-> st.open \ {r}]

\* Ray.close_all(): close() on every transport of a snapshot of the registry.
RECURSIVE CloseEach(_, _)
CloseEach(rs, st) ==
    IF rs = {} THEN st
    ELSE LET r == CHOOSE x \in rs : TRUE
         IN CloseEach(rs \ {r}, RayClose(r, st))

close_all(st) == CloseEach(st.inst, st)

\* graceful_exit(now): close_all, ask for ENTER unless now, sys.exit(0).
graceful_exit(now) ==
    LET st == close_all([inst |-> instances, open |-> serOpen])
    IN /\ instances' = st.inst
       /\ serOpen' = st.open
       /\ prompted' = (prompted \/ ~now)
       /\ outcome' = "exit0"


\* An exception (SystemExit included) that leaves flash_software's try block
\* runs its finally: shutil.rmtree(extract_dir).
SoftwareTry == {"extract", "copy", "restart", "wait_reboot"}
Unwind_kept == extract_dir' = extract_dir
Unwind == extract_dir' = (IF pc \in SoftwareTry THEN FALSE ELSE extract_dir)

\* ---------------------------------------------------------------- wait_for
\* The listen_func closures of core.py.
\* Variant: the volumes present before the boards were sent to the
\* bootloader are left out of the expected count.
wait_for_bootloader_r0_only ==
    Cardinality(list_rpi_rp2_drives) >= initial_boards

wait_for_bootloader ==
    Cardinality(list_rpi_rp2_drives) >= initial_drives + initial_boards

\* Variant: the wait is for the last drive to go.
wait_for_flash_none_left ==
    Cardinality(list_rpi_rp2_drives) = 0

\* Variant: "no more than" in place of "fewer than".
wait_for_flash_le ==
    Cardinality(list_rpi_rp2_drives) <= Cardinality(bootloader_drives)

wait_for_flash ==
    Cardinality(list_rpi_rp2_drives) < Cardinality(bootloader_drives)

wait_for_reappear ==
    Cardinality(list_rpi_rp2_drives) >= Cardinality(bootloader_drives)

wait_for_rpi_rp2 ==
    Cardinality(find_board_ports) >= Cardinality(bootloader_drives)

wait_for_reboot ==
    Cardinality(boards) <= Cardinality(find_board_ports)

\* The values listen_func() can return now ("free": a caller's predicate
\* about which nothing is known).
ListenValues ==
    CASE wpred = "bootloader" -> {wait_for_bootloader}
      [] wpred = "flash" -> {wait_for_flash}
      [] wpred = "reappear" -> {wait_for_reappear}
      [] wpred = "rpi_rp2" -> {wait_for_rpi_rp2}
      [] wpred = "reboot" -> {wait_for_reboot}
      [] OTHER -> BOOLEAN

\* The ticks an iteration can take beyond its sleep. The pipeline's waits are
\* followed tick by tick; a stand-alone call may lag.
Lags == IF wpred = "free" THEN 0 .. MaxLag ELSE {0}

\* What a poll's snapshot shows, whatever the predicate makes of it.
Observed ==
    LET n == Cardinality(list_rpi_rp2_drives)
    IN  (IF pc = "wait_bootloader" /\ n >= initial_drives + initial_boards
            THEN {"all"} ELSE {})
        \cup (IF pc \in {"wait_flash", "wait_reappear"} /\ n < Cardinality(bootloader_drives)
            THEN {"drop"} ELSE {})
        \cup (IF pc \in {"wait_flash", "wait_reappear"} /\ "drop" \in seen
                 /\ n >= Cardinality(bootloader_drives)
            THEN {"back"} ELSE {})

\* wait_for(listen_func, timeout): start_time = time.time(); dots = 0.
WaitStart(pred, timeout) ==
    /\ wpc' = "check"
    /\ wpred' = pred
    /\ wtimeout' = timeout
    /\ elapsed' = 0
    /\ polls' = 0
    /\ dots' = 0
    /\ lastVal' = FALSE
    /\ everTruthy' = FALSE

\* Variant: the test for None is missing.
TimedOut_any ==
    elapsed > TicksPerSecond * wtimeout

\* Variant: the deadline is taken one tick late.
TimedOut_late ==
    wtimeout # None /\ elapsed > TicksPerSecond * wtimeout + 1

\* timeout is not None and (time.time() - start_time) > timeout
TimedOut ==
    wtimeout # None /\ elapsed > TicksPerSecond * wtimeout

\* A loop that breaks when the time is over.
OnTimeout_break == "returned"

\* raise TimeoutError(...): nothing between wait_for and the top of the
\* process catches it.
OnTimeout == "TimeoutError"

\* The head of the loop: raise TimeoutError or go on to sleep and poll.
WaitCheck ==
    /\ outcome = "running"
    /\ wpc = "check"
    /\ IF TimedOut
          THEN /\ wpc' = OnTimeout
               /\ outcome' = (IF OnTimeout = "returned" THEN outcome ELSE OnTimeout)
               /\ Unwind
          ELSE /\ wpc' = "poll"
               /\ UNCHANGED <<outcome, extract_dir>>
    /\ UNCHANGED <<boardVars, rayVars, wpred, wtimeout, elapsed, polls, dots, lastVal,
                   everTruthy, seen, pc, initial_drives, initial_boards,
                   bootloader_drives, todo, boards, prompted>>
    /\ UNCHANGED transferVars
    /\ UNCHANGED <<callVars, chunkVars, bundleVars>>

\* time.sleep(0.5); dots; return_val = listen_func(); break when truthy.
WaitPoll ==
    /\ outcome = "running"
    /\ wpc = "poll"
    /\ polls < PollCap
    /\ \E lag \in Lags, v \in ListenValues :
          /\ elapsed' = elapsed + 1 + lag
          /\ lastVal' = v
          /\ everTruthy' = (everTruthy \/ v)
          /\ wpc' = IF v THEN "returned" ELSE "check"
    /\ polls' = polls + 1
    /\ dots' = (dots + 1) % DotWrap
    /\ seen' = seen \cup Observed
    /\ UNCHANGED <<boardVars, rayVars, wpred, wtimeout, pipeVars, procVars>>
    /\ UNCHANGED transferVars
    /\ UNCHANGED <<callVars, chunkVars, bundleVars>>

\* KeyboardInterrupt inside the try block (it arrives during the sleep or the
\* poll, where the loop spends its time): graceful_exit(now=True).
WaitInterrupt ==
    /\ outcome = "running"
    /\ wpc = "poll"
    /\ graceful_exit(TRUE)
    /\ wpc' = "exited"
    /\ Unwind
    /\ UNCHANGED <<boardVars, wpred, wtimeout, elapsed, polls, dots, lastVal, everTruthy,
                   seen, pc, initial_drives, initial_boards, bootloader_drives, todo,
                   boards>>
    /\ UNCHANGED transferVars
    /\ UNCHANGED <<callVars, chunkVars, bundleVars>>


\* ------------------------------------------------------------ core.py
\* Ray.find_boards(): one new transport per serial port found; Ray.__init__
\* registers the transport and opens its channel. `base` numbers the
\* transports of this call.
find_boards(base) == { base + b : b \in find_board_ports }

\* shutil.copy(image, drive): the board mounted at the drive receives the
\* image; a board still busy with an earlier image keeps working on that one.
Deliver(d, image) ==
    /\ pending' = [b \in Boards |->
                      IF b \in BoardAt(d) /\ pending[b] = "none" THEN image ELSE pending[b]]
    /\ log' = [b \in Boards |->
                  IF b \in BoardAt(d) THEN Append(log[b], image) ELSE log[b]]

\* An int compared with a list: never equal in Python.
PyIntEqList(n, l) == FALSE

\* get_all_boards_into_bootloader, up to the for loop: the two snapshots.
TakeSnapshot ==
    /\ outcome = "running"
    /\ pc = "start"
    /\ initial_drives' = Cardinality(list_rpi_rp2_drives)
    /\ initial_boards' = Cardinality(find_board_ports)
    /\ instances' = instances \cup find_boards(0)
    /\ serOpen' = serOpen \cup find_boards(0)
    /\ todo' = find_boards(0)
    /\ pc' = "enter"
    /\ UNCHANGED <<boardVars, waitVars, bootloader_drives, boards, extract_dir, procVars>>
    /\ UNCHANGED transferVars
    /\ UNCHANGED <<callVars, chunkVars, bundleVars>>

\* send_command(script, ignore_response=True) as enter_bootloader_mode and
\* restart_board call it, on a device that may have left the bus: ser.write
\* then raises serial.SerialException, and no except clause is on the way up.
FireAndForget(lost) == IF lost THEN "SerialException" ELSE "returned"

\* board.enter_bootloader_mode() for the next board of the loop.
EnterBootloader(r) ==
    /\ outcome = "running"
    /\ pc = "enter"
    /\ r \in todo
    /\ \E lost \in BOOLEAN :
          /\ pending' = [pending EXCEPT ![r] = IF lost THEN @ ELSE "enter"]
          /\ log' = [log EXCEPT ![r] = IF lost THEN @ ELSE Append(@, "enter")]
          /\ mode' = [mode EXCEPT ![r] = IF lost THEN "unplugged" ELSE @]
          /\ outcome' = IF FireAndForget(lost) = "returned" THEN outcome ELSE FireAndForget(lost)
    /\ todo' = todo \ {r}
    /\ UNCHANGED <<nxt, vol, rayVars, waitVars, pc, initial_drives, initial_boards,
                   bootloader_drives, boards, extract_dir, prompted>>
    /\ UNCHANGED transferVars
    /\ UNCHANGED <<callVars, chunkVars, bundleVars>>

\* wait_for(wait_for_bootloader, timeout=60)
StartWaitBootloader ==
    /\ outcome = "running"
    /\ pc = "enter"
    /\ todo = {}
    /\ WaitStart("bootloader", StepTimeout)
    /\ pc' = "wait_bootloader"
    /\ UNCHANGED <<boardVars, rayVars, seen, initial_drives, initial_boards,
                   bootloader_drives, todo, boards, extract_dir, procVars>>
    /\ UNCHANGED transferVars
    /\ UNCHANGED <<callVars, chunkVars, bundleVars>>

\* flash_firmware after get_all_boards_into_bootloader returned: the list of
\* drives, and the nuke image looked up among the bundled UF2 files
\* ([...][0] raises IndexError when there is none).
ListDrives ==
    /\ outcome = "running"
    /\ pc = "wait_bootloader"
    /\ wpc = "returned"
    /\ wpc' = "idle"
    /\ \E bundled \in BOOLEAN :
          IF bundled
             THEN /\ bootloader_drives' = list_rpi_rp2_drives
                  /\ todo' = list_rpi_rp2_drives
                  /\ pc' = "nuke"
                  /\ UNCHANGED outcome
             ELSE /\ outcome' = "IndexError"
                  /\ UNCHANGED <<bootloader_drives, todo, pc>>
    /\ UNCHANGED <<boardVars, rayVars, wpred, wtimeout, elapsed, polls, dots, lastVal,
                   everTruthy, seen, initial_drives, initial_boards, boards, extract_dir,
                   prompted>>
    /\ UNCHANGED transferVars
    /\ UNCHANGED <<callVars, chunkVars, bundleVars>>

\* shutil.copy(nuke_path, drive) for the next drive of the loop.
NukeCopy(d) ==
    /\ outcome = "running"
    /\ pc = "nuke"
    /\ d \in todo
    /\ Deliver(d, "nuke")
    /\ todo' = todo \ {d}
    /\ UNCHANGED <<mode, nxt, vol, rayVars, waitVars, pc, initial_drives, initial_boards,
                   bootloader_drives, boards, extract_dir, procVars>>
    /\ UNCHANGED transferVars
    /\ UNCHANGED <<callVars, chunkVars, bundleVars>>

\* wait_for(wait_for_flash, timeout=60)
StartWaitFlash ==
    /\ outcome = "running"
    /\ pc = "nuke"
    /\ todo = {}
    /\ WaitStart("flash", StepTimeout)
    /\ pc' = "wait_flash"
    /\ UNCHANGED <<boardVars, rayVars, seen, initial_drives, initial_boards,
                   bootloader_drives, todo, boards, extract_dir, procVars>>
    /\ UNCHANGED transferVars
    /\ UNCHANGED <<callVars, chunkVars, bundleVars>>

\* wait_for(wait_for_reappear, timeout=60)
StartWaitReappear ==
    /\ outcome = "running"
    /\ pc = "wait_flash"
    /\ wpc = "returned"
    /\ WaitStart("reappear", StepTimeout)
    /\ pc' = "wait_reappear"
    /\ UNCHANGED <<boardVars, rayVars, seen, initial_drives, initial_boards,
                   bootloader_drives, todo, boards, extract_dir, procVars>>
    /\ UNCHANGED transferVars
    /\ UNCHANGED <<callVars, chunkVars, bundleVars>>

\* if len(bootloader_drives) == list_rpi_rp2_drives():
\*     bootloader_drives = list_rpi_rp2_drives()
RefreshDrives ==
    /\ outcome = "running"
    /\ pc = "wait_reappear"
    /\ wpc = "returned"
    /\ wpc' = "idle"
    /\ bootloader_drives' =
          IF PyIntEqList(Cardinality(bootloader_drives), list_rpi_rp2_drives)
             THEN list_rpi_rp2_drives
             ELSE bootloader_drives
    /\ todo' = bootloader_drives'
    /\ pc' = "fw"
    /\ UNCHANGED <<boardVars, rayVars, wpred, wtimeout, elapsed, polls, dots, lastVal,
                   everTruthy, seen, initial_drives, initial_boards, boards, extract_dir,
                   procVars>>
    /\ UNCHANGED transferVars
    /\ UNCHANGED <<callVars, chunkVars, bundleVars>>

\* shutil.copy(firmware_path, drive) for the next drive of the loop. With
\* nothing mounted at the path the copy lands beside the mount point or
\* raises, as the platform has it.
FwCopy(d) ==
    /\ outcome = "running"
    /\ pc = "fw"
    /\ d \in todo
    /\ Deliver(d, "fw")
    /\ todo' = todo \ {d}
    /\ \E raises \in BOOLEAN :
          outcome' = IF BoardAt(d) = {} /\ raises THEN "OSError" ELSE outcome
    /\ UNCHANGED <<mode, nxt, vol, rayVars, waitVars, pc, initial_drives, initial_boards,
                   bootloader_drives, boards, extract_dir, prompted>>
    /\ UNCHANGED transferVars
    /\ UNCHANGED <<callVars, chunkVars, bundleVars>>

\* wait_for(wait_for_rpi_rp2, timeout=60)
StartWaitRp2 ==
    /\ outcome = "running"
    /\ pc = "fw"
    /\ todo = {}
    /\ WaitStart("rpi_rp2", StepTimeout)
    /\ pc' = "wait_rpi_rp2"
    /\ UNCHANGED <<boardVars, rayVars, seen, initial_drives, initial_boards,
                   bootloader_drives, todo, boards, extract_dir, procVars>>
    /\ UNCHANGED transferVars
    /\ UNCHANGED <<callVars, chunkVars, bundleVars>>

\* "update_file_format" in software_metadata and
\* software_metadata["update_file_format"] == "1.0"
FormatKnown_present(fmt) == fmt # "absent"
FormatKnown(fmt) == fmt # "absent" /\ fmt = "1.0"

\* flash_software, the format check of the bundle's first line and
\* tempfile.mkdtemp.
SoftwareFormat ==
    /\ outcome = "running"
    /\ pc = "wait_rpi_rp2"
    /\ wpc = "returned"
    /\ wpc' = "idle"
    /\ \E fmt \in {"1.0", "2.0", "absent"} :
          /\ software_format' = fmt
          /\ IF FormatKnown(fmt)
                THEN /\ extract_dir' = TRUE
                     /\ pc' = "extract"
                     /\ UNCHANGED outcome
                ELSE /\ outcome' = "exit1"
                     /\ UNCHANGED <<extract_dir, pc>>
    /\ UNCHANGED <<boardVars, rayVars, wpred, wtimeout, elapsed, polls, dots, lastVal,
                   everTruthy, seen, initial_drives, initial_boards, bootloader_drives,
                   todo, boards, prompted>>
    /\ UNCHANGED transferVars
    /\ UNCHANGED <<callVars, chunkVars>>
    /\ UNCHANGED <<temp_file, sig_data, spc, valid, hashed>>

\* flash_software: the entries are decoded into the directory (a malformed
\* line raises), then boards = Ray.find_boards().
SoftwareExtract ==
    /\ outcome = "running"
    /\ pc = "extract"
    /\ \E wellFormed \in BOOLEAN :
          IF wellFormed
             THEN /\ boards' = find_boards(NBoards)
                  /\ instances' = instances \cup find_boards(NBoards)
                  /\ serOpen' = serOpen \cup find_boards(NBoards)
                  /\ todo' = find_boards(NBoards)
                  /\ pc' = "copy"
                  /\ UNCHANGED <<outcome, extract_dir>>
             ELSE /\ outcome' = "ValueError"
                  /\ Unwind
                  /\ UNCHANGED <<boards, instances, serOpen, todo, pc>>
    /\ UNCHANGED <<boardVars, waitVars, initial_drives, initial_boards, bootloader_drives,
                   prompted>>
    /\ UNCHANGED transferVars
    /\ UNCHANGED <<callVars, chunkVars, bundleVars>>

\* The files are copied to the next board of the loop.
SoftwareCopy(r) ==
    /\ outcome = "running"
    /\ pc = "copy"
    /\ r \in todo
    /\ log' = [log EXCEPT ![r - NBoards] = Append(@, "transfer")]
    /\ todo' = todo \ {r}
    /\ UNCHANGED <<mode, nxt, vol, pending, rayVars, waitVars, pc, initial_drives,
                   initial_boards, bootloader_drives, boards, extract_dir, procVars>>
    /\ UNCHANGED transferVars
    /\ UNCHANGED <<callVars, chunkVars, bundleVars>>

\* The copy loop is over: the restart loop begins.
StartRestart ==
    /\ outcome = "running"
    /\ pc = "copy"
    /\ todo = {}
    /\ todo' = boards
    /\ pc' = "restart"
    /\ UNCHANGED <<boardVars, rayVars, waitVars, initial_drives, initial_boards,
                   bootloader_drives, boards, extract_dir, procVars>>
    /\ UNCHANGED transferVars
    /\ UNCHANGED <<callVars, chunkVars, bundleVars>>

\* board.restart_board() for the next board of the loop.
SoftwareRestart(r) ==
    /\ outcome = "running"
    /\ pc = "restart"
    /\ r \in todo
    /\ \E lost \in BOOLEAN :
          /\ pending' = [pending EXCEPT ![r - NBoards] = IF lost THEN @ ELSE "reset"]
          /\ log' = [log EXCEPT ![r - NBoards] = IF lost THEN @ ELSE Append(@, "restart")]
          /\ mode' = [mode EXCEPT ![r - NBoards] = IF lost THEN "unplugged" ELSE @]
          /\ outcome' = IF FireAndForget(lost) = "returned" THEN outcome ELSE FireAndForget(lost)
          /\ extract_dir' = IF FireAndForget(lost) = "returned" THEN extract_dir ELSE FALSE
    /\ todo' = todo \ {r}
    /\ UNCHANGED <<nxt, vol, rayVars, waitVars, pc, initial_drives, initial_boards,
                   bootloader_drives, boards, prompted>>
    /\ UNCHANGED transferVars
    /\ UNCHANGED <<callVars, chunkVars, bundleVars>>

\* wait_for(wait_for_reboot, timeout=60)
StartWaitReboot ==
    /\ outcome = "running"
    /\ pc = "restart"
    /\ todo = {}
    /\ WaitStart("reboot", StepTimeout)
    /\ pc' = "wait_reboot"
    /\ UNCHANGED <<boardVars, rayVars, seen, initial_drives, initial_boards,
                   bootloader_drives, todo, boards, extract_dir, procVars>>
    /\ UNCHANGED transferVars
    /\ UNCHANGED <<callVars, chunkVars, bundleVars>>

\* The wait returned: finally, shutil.rmtree(extract_dir).
SoftwareDone ==
    /\ outcome = "running"
    /\ pc = "wait_reboot"
    /\ wpc = "returned"
    /\ wpc' = "idle"
    /\ extract_dir' = FALSE
    /\ pc' = "done"
    /\ outcome' = "done"
    /\ UNCHANGED <<boardVars, rayVars, wpred, wtimeout, elapsed, polls, dots, lastVal,
                   everTruthy, seen, initial_drives, initial_boards, bootloader_drives,
                   todo, boards, prompted>>
    /\ UNCHANGED transferVars
    /\ UNCHANGED <<callVars, chunkVars, bundleVars>>

\* KeyboardInterrupt outside wait_for's try block: in a copy loop, between two
\* steps, or in the middle of write_update_to_board. Nothing catches it: the
\* finally of flash_software runs when the cycle is inside it, and the
\* interpreter ends the process on the uncaught exception.
Interrupt ==
    /\ outcome = "running"
    /\ wpc \in {"idle", "returned"}
    /\ pc \notin {"wait_for", "done"}
    /\ tpc \in {"off", "start", "send"}
    /\ outcome' = "KeyboardInterrupt"
    /\ tpc' = IF tpc = "off" THEN tpc ELSE "KeyboardInterrupt"
    /\ Unwind
    /\ UNCHANGED <<boardVars, rayVars, waitVars, pc, initial_drives, initial_boards,
                   bootloader_drives, todo, boards, prompted>>
    /\ UNCHANGED <<update_files, bdirs, bfiles, bf, hash_checks, executed, pass, results,
                   board_index, required_files, script, sent, reply>>
    /\ UNCHANGED <<callVars, chunkVars, bundleVars>>

\* The record of a call: the transport r, the script and whether output is
\* wanted, whether the channel was open, the registry as it was, the bytes the
\* call wrote, its flushes, the board's reply and how the call ended.
Call(op, r, script_, want, wasOpen, registered, wrote, io, reply_, result) ==
    [op |-> op, r |-> r, script |-> script_, want |-> want, wasOpen |-> wasOpen,
     registered |-> registered, wrote |-> wrote, io |-> io, reply |-> reply_,
     result |-> result]

\* No bundle has been read or downloaded.
NoSig == [json |-> "none", sha256 |-> <<"none">>, signature |-> <<"none">>]

NoBundle ==
    /\ software_format = "unread"
    /\ temp_file = <<>>
    /\ sig_data = NoSig
    /\ spc = "off"
    /\ valid = "none"
    /\ hashed = <<>>

\* No file is being chunked.
NoChunk ==
    /\ chunk_limit = 0
    /\ file_size = 0
    /\ offset = 0
    /\ yielded = 0
    /\ f_len = 0
    /\ f_good = TRUE
    /\ w_raised = FALSE
    /\ cpc = "off"

\* No call on a transport has been made (outside the model of the calls).
NoCall ==
    /\ built = {}
    /\ last = Call("none", 0, <<>>, FALSE, FALSE, {}, <<>>, <<>>, <<>>, "none")
    /\ rpc = "idle"
    /\ rx = <<>>
    /\ buf = <<>>

\* No transfer is under way (the cycle and wait_for are looked at without one).
NoTransfer ==
    /\ update_files = <<>>
    /\ bdirs = {}
    /\ bfiles = <<>>
    /\ bf = [st |-> "none", path |-> <<>>]
    /\ hash_checks = <<>>
    /\ executed = <<>>
    /\ tpc = "off"
    /\ pass = 0
    /\ results = <<>>
    /\ board_index = <<>>
    /\ required_files = {}
    /\ script = <<>>
    /\ sent = <<>>
    /\ reply = <<>>

\* --------------------------------------------------- the provisioning cycle
\* Any mix of boards in runtime mode, in bootloader mode and not plugged in.
Init ==
    /\ mode \in [Boards -> {"runtime", "boot", "unplugged"}]
    /\ nxt = [b \in Boards |-> "runtime"]
    /\ vol = [b \in Boards |-> IF mode[b] = "boot" THEN b ELSE 0]
    /\ pending = [b \in Boards |-> "none"]
    /\ log = [b \in Boards |-> <<>>]
    /\ instances = {}
    /\ serOpen = {}
    /\ wpc = "idle"
    /\ wpred = "none"
    /\ wtimeout = None
    /\ elapsed = 0
    /\ polls = 0
    /\ dots = 0
    /\ lastVal = FALSE
    /\ everTruthy = FALSE
    /\ seen = {}
    /\ pc = "start"
    /\ initial_drives = 0
    /\ initial_boards = 0
    /\ bootloader_drives = {}
    /\ todo = {}
    /\ boards = {}
    /\ extract_dir = FALSE
    /\ outcome = "running"
    /\ prompted = FALSE
    /\ NoTransfer
    /\ NoCall
    /\ NoChunk
    /\ NoBundle

Next ==
    \/ \E b \in Boards : BoardDrops(b)
    \/ \E b \in Boards : BoardAppears(b)
    \/ WaitCheck
    \/ WaitPoll
    \/ WaitInterrupt
    \/ TakeSnapshot
    \/ \E r \in RayIds : EnterBootloader(r)
    \/ StartWaitBootloader
    \/ ListDrives
    \/ \E d \in Vols : NukeCopy(d)
    \/ StartWaitFlash
    \/ StartWaitReappear
    \/ RefreshDrives
    \/ \E d \in Vols : FwCopy(d)
    \/ StartWaitRp2
    \/ SoftwareFormat
    \/ SoftwareExtract
    \/ \E r \in RayIds : SoftwareCopy(r)
    \/ StartRestart
    \/ \E r \in RayIds : SoftwareRestart(r)
    \/ StartWaitReboot
    \/ SoftwareDone
    \/ Interrupt

Spec == Init /\ [][Next]_vars


\* ------------------------------------------------- wait_for on its own
\* A caller's wait_for(listen_func, timeout) with any timeout and a predicate
\* that may return anything, in a process that has built transports before:
\* registered ones are open, closed ones have left the registry, and one that
\* was closed may have been reopened by a later command.
Timeouts == {None} \cup (0 .. MaxTimeout)

InitWait ==
    /\ mode = [b \in Boards |-> "unplugged"]
    /\ nxt = [b \in Boards |-> "runtime"]
    /\ vol = [b \in Boards |-> 0]
    /\ pending = [b \in Boards |-> "none"]
    /\ log = [b \in Boards |-> <<>>]
    /\ instances \in SUBSET RayIds
    /\ \E reopened \in SUBSET (RayIds \ instances) : serOpen = instances \cup reopened
    /\ wpc = "idle"
    /\ wpred = "none"
    /\ wtimeout = None
    /\ elapsed = 0
    /\ polls = 0
    /\ dots = 0
    /\ lastVal = FALSE
    /\ everTruthy = FALSE
    /\ seen = {}
    /\ pc = "wait_for"
    /\ initial_drives = 0
    /\ initial_boards = 0
    /\ bootloader_drives = {}
    /\ todo = {}
    /\ boards = {}
    /\ extract_dir = FALSE
    /\ outcome = "running"
    /\ prompted = FALSE
    /\ NoTransfer
    /\ NoCall
    /\ NoChunk
    /\ NoBundle

\* The call itself.
WaitFor ==
    /\ outcome = "running"
    /\ pc = "wait_for"
    /\ wpc = "idle"
    /\ \E t \in Timeouts : WaitStart("free", t)
    /\ UNCHANGED <<boardVars, rayVars, seen, pipeVars, procVars>>
    /\ UNCHANGED transferVars
    /\ UNCHANGED <<callVars, chunkVars, bundleVars>>

NextWait ==
    \/ WaitFor
    \/ WaitCheck
    \/ WaitPoll
    \/ WaitInterrupt

SpecWait == InitWait /\ [][NextWait]_vars

\* The loop is the only thread: each of its steps is taken once it can be.
FairSpecWait ==
    SpecWait /\ WF_vars(WaitFor) /\ WF_vars(WaitCheck) /\ WF_vars(WaitPoll)


\* ======================================= Ray.write_update_to_board (ray.py)
\* ------------------------------------------------------------------ bounds
\* Largest number of file entries in a bundle.
MaxFiles == 2
\* How many times the same bundle is transferred to the board.
MaxPasses == 2

\* ------------------------------------------------------- program constants
COMMAND_CHUNK_SIZE == 5000
\* chunk_size = COMMAND_CHUNK_SIZE - 20
ChunkOverhead == 20
\* len("\n".join(setup_lines))
SetupLen == 1155
\* len of a hexdigest
HexDigestLen == 64

\* A path or a file name is a sequence of characters.
Root == <<"/">>

\* The file names bundles are made of: plain, with a leading slash, and two
\* directories deep.
Names == { <<"a">>, <<"/", "a">>, <<"d", "/", "e", "/", "c">> }

\* The base64 bodies bundles are made of, by name, and their lengths in
\* characters: "x" is short, "mid" is under one chunk (with a one-letter
\* path its lines and the setup come to 4997 characters), "big" takes two.
Bodies == {"x", "mid", "big"}
B64Len(body) ==
    CASE body = "big" -> COMMAND_CHUNK_SIZE - ChunkOverhead + 4
      [] body = "mid" -> 3724
      [] OTHER -> 8

FileInfos == [filename : Names, execute : BOOLEAN, body : Bodies]

RECURSIVE SeqsUpTo(_, _)
SeqsUpTo(S, n) ==
    IF n = 0 THEN {<<>>}
    ELSE LET shorter == SeqsUpTo(S, n - 1)
         IN shorter \cup { Append(q, x) : q \in { r \in shorter : Len(r) = n - 1 }, x \in S }

Bundles == SeqsUpTo(FileInfos, MaxFiles)

\* --------------------------------------------------------- bytes and hashes
\* Decoded bytes are kept as the runs of base64 characters they came from:
\* [body, lo, hi] is what a2b_base64 makes of characters lo..hi of a body.
\* Two runs decoded one after the other are the bytes of the joined run
\* only when the first ends on a 4-character quantum.
AppendBytes(content, run) ==
    IF run.hi < run.lo THEN content
    ELSE IF /\ content # <<>>
            /\ content[Len(content)].body = run.body
            /\ content[Len(content)].hi + 1 = run.lo
            /\ content[Len(content)].hi % 4 = 0
         THEN [content EXCEPT ![Len(content)].hi = run.hi]
         ELSE Append(content, run)

\* base64.b64decode(file_contents)
b64decode(body) == AppendBytes(<<>>, [body |-> body, lo |-> 1, hi |-> B64Len(body)])

\* hashlib.sha256(...).hexdigest(): equal digests, equal bytes.
sha256(content) == <<"sha256", content>>

\* hash = '' of hash_check's except branch
NoHash == <<"">>

\* ------------------------------------------------------------------ paths
\* filename.startswith("/")
StartsWithSlash(fn) == Len(fn) > 0 /\ fn[1] = "/"

\* if not filename.startswith("/"): filename = "/" + filename
Normalize(fn) == IF StartsWithSlash(fn) THEN fn ELSE <<"/">> \o fn

\* str.rfind("/") + 1
LastSlash(path) ==
    LET at == { i \in 1 .. Len(path) : path[i] = "/" }
    IN IF at = {} THEN 0 ELSE CHOOSE i \in at : \A j \in at : j <= i

RECURSIVE RStripSlash(_)
RStripSlash(path) ==
    IF path # <<>> /\ path[Len(path)] = "/"
       THEN RStripSlash(SubSeq(path, 1, Len(path) - 1))
       ELSE path

\* os.path.dirname
dirname(path) ==
    LET head == SubSeq(path, 1, LastSlash(path))
    IN IF head # <<>> /\ RStripSlash(head) # <<>> THEN RStripSlash(head) ELSE head

\* ------------------------------------------------------ the board's side
\* The directory a path lies in, as the board's filesystem sees it.
Parent(path) == IF dirname(path) = <<>> THEN Root ELSE dirname(path)

\* The state of the board that a script acts on.
BoardState == [dirs |-> bdirs, files |-> bfiles, f |-> bf, checks |-> hash_checks,
               ran |-> executed, exc |-> "none"]

\* A function with one more (or one changed) mapping, and with one less.
Put(fn, k, v) == [x \in DOMAIN fn \cup {k} |-> IF x = k THEN v ELSE fn[x]]
Drop(fn, k) == [x \in DOMAIN fn \ {k} |-> fn[x]]

\* The board's hash of a path, as hash_check computes it.
BoardHash(st, path) ==
    IF path \in DOMAIN st.files THEN sha256(st.files[path]) ELSE NoHash

\* The bodies that are no module the board can import and run: their import
\* or their main() raises.
FaultyBodies == {"x"}

\* __import__(module_path) and imported_module.main() raise: the file is not
\* there, or it does not hold the whole of a sound body.
RunRaises(files, path) ==
    \/ path \notin DOMAIN files
    \/ \A body \in Bodies \ FaultyBodies : files[path] # b64decode(body)

\* execute_file with os.remove(path) inside the first try block.
AfterExecute_unless_raised(files, path, raised) == IF raised THEN files ELSE Drop(files, path)

\* execute_file: the file is removed, whatever the import and main() did.
AfterExecute(files, path, raised) == Drop(files, path)

\* The setup lines with the loop of wipe_board among them.
AfterSetup_wiped(st) ==
    [st EXCEPT !.f = [st |-> "none", path |-> <<>>], !.checks = <<>>, !.files = <<>>]

\* The setup lines: imports, f = None, hash_checks = [], four definitions.
AfterSetup(st) ==
    [st EXCEPT !.f = [st |-> "none", path |-> <<>>], !.checks = <<>>]

\* One line of a script run by the board; an uncaught exception ends the run
\* of the block the line is in.
ExecLine(st, line) ==
    CASE line.op = "setup" -> AfterSetup(st)
      [] line.op = "mdir" ->
            \* os.mkdir; an OSError is passed over
            IF Parent(line.path) \in st.dirs /\ line.path \notin st.dirs
                  /\ line.path \notin DOMAIN st.files
               THEN [st EXCEPT !.dirs = @ \cup {line.path}]
               ELSE st
      [] line.op = "open" ->
            \* f = open(path, 'wb')
            IF Parent(line.path) \in st.dirs /\ line.path \notin st.dirs
               THEN [st EXCEPT !.files = Put(@, line.path, <<>>),
                               !.f = [st |-> "open", path |-> line.path]]
               ELSE [st EXCEPT !.exc = "OSError"]
      [] line.op = "w" ->
            \* f.write(binascii.a2b_base64(data)); f.flush()
            IF st.f.st = "open" /\ st.f.path \in DOMAIN st.files
               THEN [st EXCEPT !.files = Put(@, st.f.path,
                                             AppendBytes(st.files[st.f.path], line.run))]
               ELSE [st EXCEPT !.exc = IF st.f.st = "none" THEN "AttributeError" ELSE "ValueError"]
      [] line.op = "close" ->
            \* f.close(): None has no close
            IF st.f.st = "none"
               THEN [st EXCEPT !.exc = "AttributeError"]
               ELSE [st EXCEPT !.f.st = "closed"]
      [] line.op = "hash_check" ->
            [st EXCEPT !.checks = Append(@, [path |-> line.path,
                                             ok |-> BoardHash(st, line.path) = line.expected])]
      [] line.op = "execute_file" ->
            \* import, main(), then os.remove(path); errors are caught
            [st EXCEPT !.files = AfterExecute(@, line.path, RunRaises(st.files, line.path)),
                       !.ran = Append(@, [path |-> line.path,
                                          present |-> line.path \in DOMAIN st.files,
                                          raised |-> RunRaises(st.files, line.path),
                                          removed |-> line.path \notin DOMAIN
                                              AfterExecute(st.files, line.path,
                                                           RunRaises(st.files, line.path))])]

RECURSIVE ExecBlock(_, _, _)
ExecBlock(st, block, i) ==
    IF i > Len(block) \/ st.exc # "none" THEN st
    ELSE ExecBlock(ExecLine(st, block[i]), block, i + 1)

\* sha256_index(): the digest of every file on the board.
sha256_index == [path \in DOMAIN bfiles |-> sha256(bfiles[path])]

\* --------------------------------------------------- get_files_to_update
\* The first loop: expected_sha256_index and the paths found twice with
\* different bodies.  required_files is only ever asked "filename in", so it
\* is kept as a set.
RECURSIVE ExpectedLoop(_, _, _, _)
ExpectedLoop(files, i, idx, req) ==
    IF i > Len(files) THEN [idx |-> idx, req |-> req]
    ELSE LET fn == Normalize(files[i].filename)
             h == sha256(b64decode(files[i].body))
         IN IF fn \in DOMAIN idx
               THEN IF idx[fn] # h
                       THEN ExpectedLoop(files, i + 1, Drop(idx, fn), req \cup {fn})
                       ELSE ExpectedLoop(files, i + 1, idx, req)
               ELSE ExpectedLoop(files, i + 1, Put(idx, fn, h), req)

\* file_info["filename"] = "/" + file_info["filename"], on the caller's list
NormalizedFiles(files) ==
    [i \in 1 .. Len(files) |-> [files[i] EXCEPT !.filename = Normalize(@)]]

\* The second loop with the digest comparison left out.
Differs_absent_only(index, idx, file) == file \notin DOMAIN index

\* The second loop, against the board's index: absent, or another digest.
Differs(index, idx, file) == file \notin DOMAIN index \/ index[file] # idx[file]

get_files_to_update(expected_files, index) ==
    LET e == ExpectedLoop(expected_files, 1, <<>>, {})
    IN e.req \cup { file \in DOMAIN e.idx : Differs(index, e.idx, file) }

\* ----------------------------------------------- generate_transfer_script
NoRun == [body |-> "", lo |-> 1, hi |-> 0]

Line(op, path, run, expected, len) ==
    [op |-> op, path |-> path, run |-> run, expected |-> expected, len |-> len]

\* for i in range(0, len(file_contents), chunk_size): w('{chunk}')
RECURSIVE Chunks(_, _)
Chunks(body, lo) ==
    LET chunk_size == COMMAND_CHUNK_SIZE - ChunkOverhead
        hi == IF lo + chunk_size - 1 < B64Len(body) THEN lo + chunk_size - 1 ELSE B64Len(body)
    IN IF lo > B64Len(body) THEN <<>>
       ELSE <<Line("w", <<>>, [body |-> body, lo |-> lo, hi |-> hi], NoHash, 5 + (hi - lo + 1))>>
            \o Chunks(body, hi + 1)

\* The lines of one file.
FileLines(file_info) ==
    LET filename == Normalize(file_info.filename)
        dir_path == dirname(filename)
        expected_hash == sha256(b64decode(file_info.body))
    IN (IF dir_path \notin {<<>>, Root}
           THEN <<Line("mdir", dir_path, NoRun, NoHash, 8 + Len(dir_path))>>
           ELSE <<>>)
       \o <<Line("open", filename, NoRun, NoHash, 18 + Len(filename))>>
       \o Chunks(file_info.body, 1)
       \o <<Line("close", <<>>, NoRun, NoHash, 9)>>
       \o <<Line("hash_check", filename, NoRun, expected_hash, 18 + HexDigestLen + Len(filename))>>
       \o (IF file_info.execute
              THEN <<Line("execute_file", filename, NoRun, NoHash, 16 + Len(filename))>>
              ELSE <<>>)

RECURSIVE AllFileLines(_, _)
AllFileLines(files, i) ==
    IF i > Len(files) THEN <<>> ELSE FileLines(files[i]) \o AllFileLines(files, i + 1)

generate_transfer_script(files) ==
    <<Line("setup", <<>>, NoRun, NoHash, SetupLen)>> \o AllFileLines(files, 1)

\* [file_info for file_info in update_files if filename in required_files or execute]
RECURSIVE ToUpload(_, _, _)
ToUpload(files, required, i) ==
    IF i > Len(files) THEN <<>>
    ELSE (IF files[i].filename \in required \/ files[i].execute THEN <<files[i]>> ELSE <<>>)
         \o ToUpload(files, required, i + 1)

\* The blocks the lines are sent in: a block is closed by the first line that
\* would take the sum of its lines' lengths over COMMAND_CHUNK_SIZE.
RECURSIVE BlockLoop(_, _, _, _, _)
BlockLoop(lines, i, blocks, current_block, current_len) ==
    IF i > Len(lines)
       THEN IF current_block # <<>> THEN Append(blocks, current_block) ELSE blocks
       ELSE IF current_len + lines[i].len > COMMAND_CHUNK_SIZE
               THEN BlockLoop(lines, i + 1, Append(blocks, current_block), <<lines[i]>>,
                              lines[i].len)
               ELSE BlockLoop(lines, i + 1, blocks, Append(current_block, lines[i]),
                              current_len + lines[i].len)

Blocks(lines) == BlockLoop(lines, 1, <<>>, <<>>, 0)

\* ------------------------------------------------- write_update_to_board
\* What the board writes back for a block it has run: a traceback of an
\* OSError reads "OSError: [Errno 2] ENOENT", any other output has no bracket.
BlockOutput(exc) == IF exc = "OSError" THEN <<"[", "t", "]">> ELSE <<"t">>

\* print([check for check in hash_checks if not check[1]])
Printed ==
    IF \E i \in 1 .. Len(hash_checks) : ~hash_checks[i].ok
       THEN <<"[", "t", "]">>
       ELSE <<"[", "]">>

RECURSIVE Concat(_, _)
Concat(seqs, i) == IF i > Len(seqs) THEN <<>> ELSE seqs[i] \o Concat(seqs, i + 1)

\* str.find and str.rfind, counted from 1; 0 stands for -1
find(output, ch) ==
    LET at == { i \in 1 .. Len(output) : output[i] = ch }
    IN IF at = {} THEN 0 ELSE CHOOSE i \in at : \A j \in at : i <= j

rfind(output, ch) ==
    LET at == { i \in 1 .. Len(output) : output[i] = ch }
    IN IF at = {} THEN 0 ELSE CHOOSE i \in at : \A j \in at : j <= i

\* output[start : end + 1].strip()
Bracketed(output) == SubSeq(output, find(output, "["), rfind(output, "]"))

\* The comparison with anything that opens a list.
IsEmptyList_any(output) == Len(output) >= 2 /\ output[1] = "["

\* output == "[]"
IsEmptyList(output) == output = <<"[", "]">>

\* How the call ends on a reply.
Verdict(output) ==
    IF find(output, "[") = 0 \/ rfind(output, "]") = 0 THEN "ValueError"
    ELSE IF IsEmptyList(Bracketed(output)) THEN "returned"
    ELSE "ValueError"

\* required_files = self.get_files_to_update(update_files), the filter and the
\* script, cut into blocks.
GetFilesToUpdate ==
    /\ tpc = "start"
    /\ LET index == sha256_index
           required == get_files_to_update(update_files, index)
           files == NormalizedFiles(update_files)
           uploaded == ToUpload(files, required, 1)
       IN /\ update_files' = files
          /\ board_index' = index
          /\ required_files' = required
          /\ script' = Blocks(generate_transfer_script(uploaded))
          /\ results' = Append(results, [index |-> index, uploaded |-> uploaded,
                                         outcome |-> "sending"])
    /\ sent' = <<>>
    /\ executed' = <<>>
    /\ tpc' = "send"
    /\ UNCHANGED <<bdirs, bfiles, bf, hash_checks, pass, reply>>
    /\ UNCHANGED benchVars
    /\ UNCHANGED <<callVars, chunkVars, bundleVars>>

\* self.send_command(block_script, ignore_response=True), and the board
\* running the block.
SendBlock ==
    /\ tpc = "send"
    /\ script # <<>>
    /\ LET st == ExecBlock(BoardState, Head(script), 1)
       IN /\ bdirs' = st.dirs
          /\ bfiles' = st.files
          /\ bf' = st.f
          /\ hash_checks' = st.checks
          /\ executed' = st.ran
          /\ sent' = Append(sent, BlockOutput(st.exc))
    /\ script' = Tail(script)
    /\ UNCHANGED <<update_files, tpc, pass, results, board_index, required_files, reply>>
    /\ UNCHANGED benchVars
    /\ UNCHANGED <<callVars, chunkVars, bundleVars>>

\* output = self.send_command("print(...)", ignore_response=False) and what
\* follows.  The input buffer is flushed before the query is written: of the
\* blocks' output, what arrives after the flush is read with the answer (the
\* first "OK" read may be an earlier block's), and reading stops once the
\* line has been idle for a second, which may be before the answer.
Query ==
    /\ tpc = "send"
    /\ script = <<>>
    /\ \E late \in 0 .. Len(sent), answered \in BOOLEAN :
          /\ late = 0 => answered
          /\ reply' = Concat(SubSeq(sent, Len(sent) - late + 1, Len(sent)), 1)
                      \o (IF answered THEN Printed \o <<"t">> ELSE <<>>)
    /\ tpc' = IF Verdict(reply') = "returned" THEN "returned" ELSE "raised"
    /\ results' = [results EXCEPT ![Len(results)].outcome = Verdict(reply')]
    /\ UNCHANGED <<update_files, bdirs, bfiles, bf, hash_checks, executed, pass, board_index,
                   required_files, script, sent>>
    /\ UNCHANGED benchVars
    /\ UNCHANGED <<callVars, chunkVars, bundleVars>>

\* The caller transfers the same bundle to the same board once more.
TransferAgain ==
    /\ tpc \in {"returned", "raised"}
    /\ pass < MaxPasses
    /\ pass' = pass + 1
    /\ tpc' = "start"
    /\ UNCHANGED <<update_files, bdirs, bfiles, bf, hash_checks, executed, results, board_index,
                   required_files, script, sent, reply>>
    /\ UNCHANGED benchVars
    /\ UNCHANGED <<callVars, chunkVars, bundleVars>>

\* The filesystems a transfer finds: a wiped board, and a board that holds a
\* file of the bundles and a directory.
EmptyFS == [dirs |-> {Root}, files |-> <<>>]
StaleFS == [dirs |-> {Root, <<"/", "d">>},
            files |-> Put(Put(<<>>, <<"/", "a">>, b64decode("big")),
                          <<"/", "d", "/", "b">>, b64decode("x"))]

InitTransfer ==
    /\ mode = [b \in Boards |-> "runtime"]
    /\ nxt = [b \in Boards |-> "runtime"]
    /\ vol = [b \in Boards |-> 0]
    /\ pending = [b \in Boards |-> "none"]
    /\ log = [b \in Boards |-> <<>>]
    /\ instances = {1}
    /\ serOpen = {1}
    /\ wpc = "idle"
    /\ wpred = "none"
    /\ wtimeout = None
    /\ elapsed = 0
    /\ polls = 0
    /\ dots = 0
    /\ lastVal = FALSE
    /\ everTruthy = FALSE
    /\ seen = {}
    /\ pc = "transfer"
    /\ initial_drives = 0
    /\ initial_boards = 0
    /\ bootloader_drives = {}
    /\ todo = {}
    /\ boards = {}
    /\ extract_dir = FALSE
    /\ outcome = "running"
    /\ prompted = FALSE
    /\ update_files \in Bundles
    /\ \E fs \in {EmptyFS, StaleFS} : bdirs = fs.dirs /\ bfiles = fs.files
    /\ bf = [st |-> "none", path |-> <<>>]
    /\ hash_checks = <<>>
    /\ executed = <<>>
    /\ tpc = "start"
    /\ pass = 1
    /\ results = <<>>
    /\ board_index = <<>>
    /\ required_files = {}
    /\ script = <<>>
    /\ sent = <<>>
    /\ reply = <<>>
    /\ NoCall
    /\ NoChunk
    /\ NoBundle

NextTransfer ==
    \/ GetFilesToUpdate
    \/ SendBlock
    \/ Query
    \/ TransferAgain
    \/ Interrupt

SpecTransfer == InitTransfer /\ [][NextTransfer]_vars

\* =========================================== calls on a transport (ray.py)
\* ------------------------------------------------------------------ bounds
\* Number of transport objects the caller builds.
NRays == 2

Rays == 1 .. NRays

\* ------------------------------------------------------- program constants
\* The control bytes, and the tokens a script is made of: "s" is text
\* without a newline, "nl" is a newline.
CTRL_A == "^A"
CTRL_B == "^B"
CTRL_C == "^C"
CTRL_D == "^D"

\* The scripts callers send: empty, one line without its newline, one line
\* with it.
Scripts == { <<>>, <<"s">>, <<"s", "nl">> }

\* What the board answers to a script: OK, what the script printed, ^D, the
\* traceback if the script raised, ^D and the prompt.
Outs == { <<>>, <<"o">> }
Errs == { <<>>, <<"e">> }
BoardReply(out, err) == <<"O", "K">> \o out \o <<CTRL_D>> \o err \o <<CTRL_D, ">">>
Replies == { BoardReply(out, err) : out \in Outs, err \in Errs }

\* Ray.open() with the test of is_open left out.
OpenBytes_always(wasOpen) == <<CTRL_C, CTRL_C, CTRL_A>>

\* Ray.open(): what it writes. A closed channel is opened and the board is
\* interrupted and put into raw mode; an open one is left alone.
OpenBytes(wasOpen) == IF wasOpen THEN <<>> ELSE <<CTRL_C, CTRL_C, CTRL_A>>

\* Ray.open(): the buffers it flushes.
OpenFlushes(wasOpen) == IF wasOpen THEN <<>> ELSE <<"flushInput", "flushOutput">>

\* script.endswith("\n")
EndsWithNewline(script_) == script_ # <<>> /\ script_[Len(script_)] = "nl"

\* The newline added to every script.
WithNewline_always(script_) == Append(script_, "nl")

\* script += "\n" for a script that has none at its end
WithNewline(script_) == IF EndsWithNewline(script_) THEN script_ ELSE Append(script_, "nl")

\* send_command: the bytes written after open() returned.
SendBytes(script_) == WithNewline(script_) \o <<CTRL_D>>

\* send_command: the flushes made after open() returned.
SendFlushes(want) == IF want THEN <<"flushOutput", "flushInput">> ELSE <<>>

\* No call is between its first and its last step.
Between == rpc = "idle"

\* Ray(port): the transport joins the registry, then its channel is opened;
\* when serial.Serial raises the caller gets no transport, and the registry
\* keeps the one that was being built.
RayNew(r) ==
    /\ Between
    /\ r \notin built
    /\ r \notin instances
    /\ instances' = instances \cup {r}
    /\ \E opens \in BOOLEAN :
          /\ built' = IF opens THEN built \cup {r} ELSE built
          /\ serOpen' = IF opens THEN serOpen \cup {r} ELSE serOpen
          /\ last' = Call("new", r, <<>>, FALSE, FALSE, instances,
                          IF opens THEN OpenBytes(FALSE) ELSE <<>>,
                          IF opens THEN OpenFlushes(FALSE) ELSE <<>>,
                          <<>>,
                          IF opens THEN "returned" ELSE "SerialException")
    /\ UNCHANGED <<rpc, rx, buf>>
    /\ UNCHANGED <<boardVars, waitVars, pipeVars, procVars>>
    /\ UNCHANGED <<transferVars, chunkVars, bundleVars>>

\* ray.open()
RayOpen(r) ==
    /\ Between
    /\ r \in built
    /\ serOpen' = serOpen \cup {r}
    /\ last' = Call("open", r, <<>>, FALSE, r \in serOpen, instances,
                    OpenBytes(r \in serOpen), OpenFlushes(r \in serOpen), <<>>, "returned")
    /\ UNCHANGED <<built, instances, rpc, rx, buf>>
    /\ UNCHANGED <<boardVars, waitVars, pipeVars, procVars>>
    /\ UNCHANGED <<transferVars, chunkVars, bundleVars>>

\* ray.close()
RayCloseCall(r) ==
    /\ Between
    /\ r \in built
    /\ LET st == RayClose(r, [inst |-> instances, open |-> serOpen])
       IN /\ instances' = st.inst
          /\ serOpen' = st.open
    /\ last' = Call("close", r, <<>>, FALSE, r \in serOpen, instances, <<>>, <<>>, <<>>,
                    "returned")
    /\ UNCHANGED <<built, rpc, rx, buf>>
    /\ UNCHANGED <<boardVars, waitVars, pipeVars, procVars>>
    /\ UNCHANGED <<transferVars, chunkVars, bundleVars>>

\* Ray.close_all()
RayCloseAll ==
    /\ Between
    /\ LET st == close_all([inst |-> instances, open |-> serOpen])
       IN /\ instances' = st.inst
          /\ serOpen' = st.open
    /\ last' = Call("close_all", 0, <<>>, FALSE, FALSE, instances, <<>>, <<>>, <<>>,
                    "returned")
    /\ UNCHANGED <<built, rpc, rx, buf>>
    /\ UNCHANGED <<boardVars, waitVars, pipeVars, procVars>>
    /\ UNCHANGED <<transferVars, chunkVars, bundleVars>>

\* ray.enter_bootloader_mode(): send_command("import machine\nmachine.bootloader()",
\* ignore_response=True) and nothing else; self.ser is left as it is.
RayEnterBootloader(r) ==
    /\ Between
    /\ r \in built
    /\ serOpen' = serOpen \cup {r}
    /\ last' = Call("enter_bootloader_mode", r, <<"s">>, FALSE, r \in serOpen, instances,
                    OpenBytes(r \in serOpen) \o SendBytes(<<"s">>),
                    OpenFlushes(r \in serOpen) \o SendFlushes(FALSE),
                    <<>>, "returned")
    /\ UNCHANGED <<built, instances, rpc, rx, buf>>
    /\ UNCHANGED <<boardVars, waitVars, pipeVars, procVars>>
    /\ UNCHANGED <<transferVars, chunkVars, bundleVars>>

\* b"OK" in chunk, and chunk.index(b"OK"), counted from 1; 0 when absent
IndexOK(chunk) ==
    LET at == { i \in 1 .. Len(chunk) - 1 : chunk[i] = "O" /\ chunk[i + 1] = "K" }
    IN IF at = {} THEN 0 ELSE CHOOSE i \in at : \A j \in at : i <= j

\* ray.send_command(script, ignore_response), up to the reads: open(), the
\* flushes when output is wanted, the script, a newline if it has none at its
\* end, and Ctrl-D. Without output wanted the call is over.
RaySend(r) ==
    /\ Between
    /\ r \in built
    /\ serOpen' = serOpen \cup {r}
    /\ \E script_ \in Scripts, want \in BOOLEAN, answer \in Replies :
          /\ last' = Call("send_command", r, script_, want, r \in serOpen, instances,
                          OpenBytes(r \in serOpen) \o SendBytes(script_),
                          OpenFlushes(r \in serOpen) \o SendFlushes(want),
                          IF want THEN answer ELSE <<>>,
                          IF want THEN "reading" ELSE "returned")
          /\ rpc' = IF want THEN "ack" ELSE "idle"
          /\ rx' = IF want THEN answer ELSE <<>>
    /\ buf' = <<>>
    /\ UNCHANGED <<built, instances>>
    /\ UNCHANGED <<boardVars, waitVars, pipeVars, procVars>>
    /\ UNCHANGED <<transferVars, chunkVars, bundleVars>>

\* The first loop: chunk = self.ser.read(self.ser.in_waiting), whatever has
\* arrived by then; a chunk without "OK" is dropped.
ReadAck ==
    /\ rpc = "ack"
    /\ rx # <<>>
    /\ \E n \in 1 .. Len(rx) :
          LET chunk == SubSeq(rx, 1, n)
          IN /\ rx' = SubSeq(rx, n + 1, Len(rx))
             /\ IF IndexOK(chunk) # 0
                   THEN /\ buf' = buf \o SubSeq(chunk, IndexOK(chunk) + 2, Len(chunk))
                        /\ rpc' = "wait"
                   ELSE /\ buf' = buf
                        /\ rpc' = "ack"
    /\ UNCHANGED <<built, last>>
    /\ UNCHANGED benchVars
    /\ UNCHANGED <<transferVars, chunkVars, bundleVars>>

\* while self.ser.in_waiting == 0: the loop is left when more has arrived.
WaitData ==
    /\ rpc = "wait"
    /\ rx # <<>>
    /\ rpc' = "rest"
    /\ UNCHANGED <<built, last, rx, buf>>
    /\ UNCHANGED benchVars
    /\ UNCHANGED <<transferVars, chunkVars, bundleVars>>

\* The last loop: buf += chunk while chunks arrive.
ReadRest ==
    /\ rpc = "rest"
    /\ rx # <<>>
    /\ \E n \in 1 .. Len(rx) :
          /\ buf' = buf \o SubSeq(rx, 1, n)
          /\ rx' = SubSeq(rx, n + 1, Len(rx))
    /\ UNCHANGED <<built, last, rpc>>
    /\ UNCHANGED benchVars
    /\ UNCHANGED <<transferVars, chunkVars, bundleVars>>

\* Nothing has arrived for a second: return buf.decode("utf-8").
ReadReturn ==
    /\ rpc = "rest"
    /\ rx = <<>>
    /\ rpc' = "idle"
    /\ last' = [last EXCEPT !.result = "returned"]
    /\ UNCHANGED <<built, rx, buf>>
    /\ UNCHANGED benchVars
    /\ UNCHANGED <<transferVars, chunkVars, bundleVars>>

\* A caller that builds transports and calls them in any order.
InitRay ==
    /\ mode = [b \in Boards |-> "runtime"]
    /\ nxt = [b \in Boards |-> "runtime"]
    /\ vol = [b \in Boards |-> 0]
    /\ pending = [b \in Boards |-> "none"]
    /\ log = [b \in Boards |-> <<>>]
    /\ instances = {}
    /\ serOpen = {}
    /\ wpc = "idle"
    /\ wpred = "none"
    /\ wtimeout = None
    /\ elapsed = 0
    /\ polls = 0
    /\ dots = 0
    /\ lastVal = FALSE
    /\ everTruthy = FALSE
    /\ seen = {}
    /\ pc = "calls"
    /\ initial_drives = 0
    /\ initial_boards = 0
    /\ bootloader_drives = {}
    /\ todo = {}
    /\ boards = {}
    /\ extract_dir = FALSE
    /\ outcome = "running"
    /\ prompted = FALSE
    /\ NoTransfer
    /\ NoCall
    /\ NoChunk
    /\ NoBundle

NextRay ==
    \/ \E r \in Rays : RayNew(r)
    \/ \E r \in Rays : RayOpen(r)
    \/ \E r \in Rays : RayCloseCall(r)
    \/ RayCloseAll
    \/ \E r \in Rays : RaySend(r)
    \/ \E r \in Rays : RayEnterBootloader(r)
    \/ ReadAck
    \/ WaitData
    \/ ReadRest
    \/ ReadReturn

SpecRay == InitRay /\ [][NextRay]_vars



\* ------------------------------------------------- chunking, for any limit
\* One file's body on its way through the w lines of generate_transfer_script
\* and the board's w, with COMMAND_CHUNK_SIZE taken from a range.
MinLimit == 1024
MaxLimit == 8192
MaxFileKiB == 256

Limits == {MinLimit, MinLimit + 1, MinLimit + 2, MinLimit + 3, COMMAND_CHUNK_SIZE, MaxLimit}
FileSizes == {0, 1, 2, 3, 752, 753, 754, 755, 756, 3735, 3736, MaxFileKiB * 1024}

\* len(base64.b64encode(bytes)) and the number of "=" at its end
EncodedLen(nbytes) == 4 * ((nbytes + 2) \div 3)
Padding(nbytes) == (3 - (nbytes % 3)) % 3

Min(a, b) == IF a <= b THEN a ELSE b
Max(a, b) == IF a >= b THEN a ELSE b

\* file_contents[i : i + chunk_size], as the characters from..to of the body,
\* counted from 0, to excluded
Piece(limit, nbytes, i) ==
    [from |-> i, to |-> Min(i + (limit - ChunkOverhead), EncodedLen(nbytes))]

\* the digits and the "=" of a piece
DataChars(nbytes, piece) ==
    Max(0, Min(piece.to, EncodedLen(nbytes) - Padding(nbytes)) - piece.from)
PadChars(nbytes, piece) == (piece.to - piece.from) - DataChars(nbytes, piece)

\* binascii.a2b_base64(data) on the board: every digit brings 6 bits, a byte
\* leaves when 8 are there, "=" clears 2 left-over bits and a second "="
\* clears 4, and bits left over at the end raise ValueError.
Decodes(data, pad) ==
    \/ data % 4 = 0
    \/ data % 4 = 2 /\ pad >= 2
    \/ data % 4 = 3 /\ pad >= 1
DecodedLen(data) == (6 * data) \div 8

\* for i in range(0, len(file_contents), chunk_size): yield w(chunk), and the
\* board runs f.write(binascii.a2b_base64(data))
ChunkW ==
    /\ cpc = "w"
    /\ offset < EncodedLen(file_size)
    /\ LET piece == Piece(chunk_limit, file_size, offset)
           data == DataChars(file_size, piece)
           pad == PadChars(file_size, piece)
       IN /\ offset' = offset + (chunk_limit - ChunkOverhead)
          /\ yielded' = yielded + (piece.to - piece.from)
          /\ IF Decodes(data, pad)
                THEN /\ f_len' = f_len + DecodedLen(data)
                     /\ f_good' = (f_good /\ piece.from % 4 = 0 /\ 3 * (piece.from \div 4) = f_len)
                     /\ w_raised' = w_raised
                ELSE /\ f_len' = f_len
                     /\ f_good' = f_good
                     /\ w_raised' = TRUE
    /\ UNCHANGED <<chunk_limit, file_size, cpc>>
    /\ UNCHANGED <<benchVars, transferVars, callVars, bundleVars>>

\* the range is exhausted: yield "f.close()"
ChunkClose ==
    /\ cpc = "w"
    /\ offset >= EncodedLen(file_size)
    /\ cpc' = "closed"
    /\ UNCHANGED <<chunk_limit, file_size, offset, yielded, f_len, f_good, w_raised>>
    /\ UNCHANGED <<benchVars, transferVars, callVars, bundleVars>>

\* f = open(filename, 'wb') has run: a file of some size, a limit of the range
InitChunk ==
    /\ mode = [b \in Boards |-> "runtime"]
    /\ nxt = [b \in Boards |-> "runtime"]
    /\ vol = [b \in Boards |-> 0]
    /\ pending = [b \in Boards |-> "none"]
    /\ log = [b \in Boards |-> <<>>]
    /\ instances = {}
    /\ serOpen = {}
    /\ wpc = "idle"
    /\ wpred = "none"
    /\ wtimeout = None
    /\ elapsed = 0
    /\ polls = 0
    /\ dots = 0
    /\ lastVal = FALSE
    /\ everTruthy = FALSE
    /\ seen = {}
    /\ pc = "chunks"
    /\ initial_drives = 0
    /\ initial_boards = 0
    /\ bootloader_drives = {}
    /\ todo = {}
    /\ boards = {}
    /\ extract_dir = FALSE
    /\ outcome = "running"
    /\ prompted = FALSE
    /\ NoTransfer
    /\ NoCall
    /\ chunk_limit \in Limits
    /\ file_size \in FileSizes
    /\ offset = 0
    /\ yielded = 0
    /\ f_len = 0
    /\ f_good = TRUE
    /\ w_raised = FALSE
    /\ cpc = "w"
    /\ NoBundle

NextChunk ==
    \/ ChunkW
    \/ ChunkClose

SpecChunk == InitChunk /\ [][NextChunk]_vars

\* ================================================================ properties
HasOp(b, op) == \E i \in 1 .. Len(log[b]) : log[b][i] = op

\* The place of an operation in the order enter_bootloader, nuke, (the nuke
\* ran and the board is back in the bootloader), firmware, transfer, restart.
Rank(op) ==
    CASE op = "enter" -> 1
      [] op = "nuke" -> 2
      [] op = "nuked" -> 3
      [] op = "fw" -> 4
      [] op = "transfer" -> 5
      [] op = "restart" -> 6

\* C1: on every board the operations come in the order enter_bootloader,
\* nuke copy, firmware copy, transfer, restart, and the firmware image is
\* copied to a board's volume only after that board has run the nuke image
\* and come back in the bootloader.
C1_PerBoardOrder ==
    \A b \in Boards :
        /\ \A i, j \in 1 .. Len(log[b]) : i < j => Rank(log[b][i]) < Rank(log[b][j])
        /\ \A j \in 1 .. Len(log[b]) :
              log[b][j] = "fw" => \E i \in 1 .. (j - 1) : log[b][i] = "nuked"

\* The pipeline is past step S1 / past step S2.
PastS2 == pc \in {"fw", "wait_rpi_rp2", "extract", "copy", "restart", "wait_reboot", "done"}
PastS1 == PastS2 \/ pc \in {"nuke", "wait_flash", "wait_reappear"}

\* C6: S1 sends enter_bootloader to every runtime port of the first snapshot
\* and is over only after a poll saw at least b0 + r0 volumes; a poll is
\* never started after the timeout has passed, and the TimeoutError comes
\* only when no poll saw them.
C6_S1Completes ==
    /\ (pc = "wait_bootloader" \/ PastS1) =>
          Cardinality({ b \in Boards : HasOp(b, "enter") }) = initial_boards
    /\ pc = "wait_bootloader" =>
          \A b \in Boards : mode[b] = "runtime" => HasOp(b, "enter")
    /\ (PastS1 \/ (pc = "wait_bootloader" /\ wpc = "returned")) => "all" \in seen
    /\ (pc = "wait_bootloader" /\ wpc = "poll") => elapsed <= TicksPerSecond * StepTimeout
    /\ (pc = "wait_bootloader" /\ wpc = "TimeoutError") =>
          "all" \notin seen /\ elapsed > TicksPerSecond * StepTimeout

C6_Witness ==
    pc = "nuke" /\ initial_boards = 1 /\ initial_drives = 1

\* C7: the nuke image has gone to every volume of the list, and the firmware
\* copy begins only after a poll saw fewer volumes than the list holds and a
\* later poll saw at least that many again.
C7_DropThenRecover ==
    /\ (pc \in {"wait_flash", "wait_reappear"} \/ PastS2) =>
          Cardinality({ b \in Boards : HasOp(b, "nuke") }) = Cardinality(bootloader_drives)
    /\ PastS2 => {"drop", "back"} \subseteq seen

C7_Witness ==
    pc = "fw" /\ Cardinality(bootloader_drives) = NBoards /\ todo = bootloader_drives

\* C8: when the firmware loop is over without an error, every board that
\* came back from the nuke as a volume has been given the firmware image,
\* whatever mount point it came back under.
C8_FirmwareReachesEveryVolume ==
    (pc = "wait_rpi_rp2" /\ outcome = "running") =>
        \A b \in Boards : (mode[b] = "boot" /\ HasOp(b, "nuked")) => HasOp(b, "fw")

\* C9: wait_for makes one poll per tick slept; it returns only right after a
\* truthy poll; it raises TimeoutError only with a timeout set, no truthy
\* poll and more than the timeout elapsed; an interrupt closes the
\* registered transports and exits with status 0 without a prompt; and
\* these are its only ways out.
C9_State ==
    /\ wpc \in {"idle", "check", "poll", "returned", "TimeoutError", "exited"}
    /\ polls <= elapsed
    /\ wpc = "returned" => lastVal
    /\ wpc = "TimeoutError" =>
          /\ ~everTruthy
          /\ wtimeout # None
          /\ elapsed > TicksPerSecond * wtimeout
    /\ (outcome # "running") <=> (wpc \in {"TimeoutError", "exited"})
    /\ wpc = "TimeoutError" => outcome = "TimeoutError"
    /\ wpc = "exited" => outcome = "exit0" /\ instances = {} /\ ~prompted

C9_Step ==
    (wpc # "exited" /\ wpc' = "exited") => serOpen' = serOpen \ instances

C9_WaitOutcomes == [](C9_State) /\ [][C9_Step]_vars

C9_Witness ==
    wpc = "exited" /\ polls = 2 /\ serOpen # {}

\* C10: with a timeout of T seconds wait_for makes at most T / 0.5 + 1 polls,
\* and a call whose polls are never truthy ends (with TimeoutError, unless
\* the user interrupts it).
C10_PollBound ==
    /\ [](wtimeout # None => polls <= TicksPerSecond * wtimeout + 1)
    /\ ((wpc = "check" /\ wtimeout # None) ~>
            (everTruthy \/ wpc \in {"TimeoutError", "exited"}))

C10_Witness ==
    /\ wpc = "TimeoutError"
    /\ wtimeout = MaxTimeout
    /\ polls = TicksPerSecond * MaxTimeout + 1

\* ----------------------------------------------------------- the transfer
\* The SHA-256 of a bundle file's decoded body.
ExpectedDigest(file_info) == sha256(b64decode(file_info.body))

\* The file is on the board under its path, with its own bytes.
OnBoard(file_info) ==
    /\ Normalize(file_info.filename) \in DOMAIN bfiles
    /\ sha256(bfiles[Normalize(file_info.filename)]) = ExpectedDigest(file_info)

\* C2: whenever a transfer has returned without raising, every non-execute
\* file of the bundle is on the board and the digest of what the board holds
\* under its path is the SHA-256 of the file's decoded body.
C2_ReturnedMeansDelivered ==
    tpc = "returned" =>
        \A i \in 1 .. Len(update_files) :
            ~update_files[i].execute => OnBoard(update_files[i])

InDelta(file_info, index) ==
    \/ file_info.execute
    \/ Normalize(file_info.filename) \notin DOMAIN index
    \/ index[Normalize(file_info.filename)] # ExpectedDigest(file_info)

DeltaOf(files, index) ==
    LET Test(file_info) == InDelta(file_info, index)
    IN SelectSeq(files, Test)

\* No path is in the bundle with two different bodies.
NoConflictingPaths ==
    \A i, j \in 1 .. Len(update_files) :
        Normalize(update_files[i].filename) = Normalize(update_files[j].filename)
            => ExpectedDigest(update_files[i]) = ExpectedDigest(update_files[j])

C5_SecondTransferUploadsNothing ==
    (Len(results) >= 2 /\ results[1].outcome = "returned") =>
        \A i \in 1 .. Len(results[2].uploaded) : results[2].uploaded[i].execute

\* ------------------------------------------------------------ interrupts
\* The process was interrupted: inside a wait, or anywhere else.
Interrupted == wpc = "exited" \/ outcome = "KeyboardInterrupt"

\* C11: an interrupt at any point of a provisioning cycle, in a wait or in
\* the middle of a transfer, ends with every serial channel closed and the
\* process exited with status 0, without a prompt and without a success
\* message for the transfer it interrupted.
C11_InterruptShutsDown ==
    Interrupted =>
        /\ serOpen = {}
        /\ outcome = "exit0"
        /\ ~prompted
        /\ tpc # "returned"

\* ------------------------------------------------- calls on a transport
\* C12: after close() the transport is out of the registry and its channel
\* is closed, also when it was closed before; after close_all() the registry
\* is empty and the channel of every transport that was in it is closed.
C12_CloseLeavesRegistry ==
    /\ last.op = "close" =>
          /\ last.r \notin instances
          /\ last.r \notin serOpen
          /\ last.result = "returned"
          /\ instances = last.registered \ {last.r}
    /\ last.op = "close_all" =>
          /\ instances = {}
          /\ last.registered \cap serOpen = {}
          /\ last.result = "returned"

\* close() on a transport that is closed and out of the registry already,
\* with another transport still registered.
C12_Witness ==
    /\ last.op = "close"
    /\ ~last.wasOpen
    /\ last.r \notin last.registered
    /\ instances # {}

\* C18: a send_command call writes the script, one newline if the script does
\* not end with one, and one Ctrl-D, after what opening a closed channel
\* writes; a call that wants no output is over with that write, with no
\* flush after the channel was opened and no read.
C18_SendWritesScript ==
    last.op = "send_command" =>
        LET opened == IF last.wasOpen THEN <<>> ELSE <<CTRL_C, CTRL_C, CTRL_A>>
            newline == IF last.script # <<>> /\ last.script[Len(last.script)] = "nl"
                          THEN <<>> ELSE <<"nl">>
        IN /\ last.wrote = opened \o last.script \o newline \o <<CTRL_D>>
           /\ ~last.want =>
                 /\ last.result = "returned"
                 /\ rpc = "idle"
                 /\ rx = <<>>
                 /\ last.io = (IF last.wasOpen THEN <<>> ELSE <<"flushInput", "flushOutput">>)

\* A script that ends with a newline, sent on an open channel without output
\* wanted.
C18_Witness ==
    /\ last.op = "send_command"
    /\ last.script = <<"s", "nl">>
    /\ ~last.want
    /\ last.wasOpen

\* The calls that go through open().
OpeningCalls == {"new", "open", "send_command", "enter_bootloader_mode"}

\* The control bytes of the raw-mode entry among the bytes written.
EntryBytesIn(wrote) == { i \in 1 .. Len(wrote) : wrote[i] \in {CTRL_C, CTRL_A} }

\* C19: Ctrl-C Ctrl-C Ctrl-A is written each time a channel goes from closed
\* to open, before any byte of a script, and not when the channel is open
\* already; Ctrl-B is never written.
C19_State ==
    (last.op \in OpeningCalls /\ last.result # "SerialException") =>
        /\ ~last.wasOpen =>
              /\ Len(last.wrote) >= 3
              /\ SubSeq(last.wrote, 1, 3) = <<CTRL_C, CTRL_C, CTRL_A>>
              /\ EntryBytesIn(last.wrote) = {1, 2, 3}
        /\ last.wasOpen => EntryBytesIn(last.wrote) = {}
        /\ \A i \in 1 .. Len(last.wrote) : last.wrote[i] # CTRL_B

C19_Step ==
    \A r \in Rays :
        (r \notin serOpen /\ r \in serOpen') =>
            /\ last'.r = r
            /\ ~last'.wasOpen
            /\ last'.op \in OpeningCalls

C19_RawModeEntry == [](C19_State) /\ [][C19_Step]_vars

\* A send_command that found its channel closed, opened it and wrote a
\* script after the entry sequence.
C19_Witness ==
    /\ last.op = "send_command"
    /\ ~last.wasOpen
    /\ last.script = <<"s">>
    /\ last.r \in serOpen

\* The board's stderr: what lies between the first and the second Ctrl-D of
\* its reply.
Stderr(answer) ==
    LET ds == { i \in 1 .. Len(answer) : answer[i] = CTRL_D }
        d1 == CHOOSE i \in ds : \A j \in ds : i <= j
        d2 == CHOOSE i \in ds \ {d1} : \A j \in ds \ {d1} : i <= j
    IN IF Cardinality(ds) < 2 THEN <<>> ELSE SubSeq(answer, d1 + 1, d2 - 1)

\* C20: a send_command that wants output and gets a reply with stderr in it
\* raises a board error and does not return normally.
C20_StderrRaises ==
    (last.op = "send_command" /\ last.want /\ last.result # "reading"
        /\ Stderr(last.reply) # <<>>) =>
            last.result = "BoardError"

\* -------------------------------------------- the script of a transfer
\* The lines of the blocks that are still to be submitted; right after
\* GetFilesToUpdate these are all the lines of the transfer.
LinesToSend == Concat(script, 1)
NothingSentYet == tpc = "send" /\ sent = <<>>

IsExecute(file_info) == file_info.execute

\* C13: every execute file of the bundle is uploaded by every transfer,
\* whatever the board's index holds; its execute_file line comes right after
\* its close and hash_check lines; and a file the board has run is removed,
\* whether or not running it raised.
C13_ExecuteFilesRunAndGo ==
    /\ \A k \in 1 .. Len(results) :
          SelectSeq(results[k].uploaded, IsExecute) = SelectSeq(update_files, IsExecute)
    /\ NothingSentYet =>
          LET lines == LinesToSend
              runs == { j \in 1 .. Len(lines) : lines[j].op = "execute_file" }
          IN /\ Cardinality(runs) = Len(SelectSeq(update_files, IsExecute))
             /\ \A j \in runs :
                   /\ j > 2
                   /\ lines[j - 1].op = "hash_check"
                   /\ lines[j - 1].path = lines[j].path
                   /\ lines[j - 2].op = "close"
    /\ \A i \in 1 .. Len(executed) : executed[i].removed

\* A transfer has returned that uploaded and ran an execute file the board
\* held already with the same digest, and the file is gone.
C13_Witness ==
    /\ tpc = "returned"
    /\ \E i \in 1 .. Len(update_files), j \in 1 .. Len(executed) :
          LET file_info == update_files[i]
              index == results[Len(results)].index
          IN /\ file_info.execute
             /\ file_info.filename \in DOMAIN index
             /\ index[file_info.filename] = ExpectedDigest(file_info)
             /\ executed[j].path = file_info.filename
             /\ executed[j].present
             /\ file_info.filename \notin DOMAIN bfiles

\* C14: no hash_check recorded for an execute file is among the failed
\* checks that decide how a transfer ends: every failed check is the check
\* of a file that is not marked execute.
C14_ExecuteDigestsNotCounted ==
    tpc \in {"returned", "raised"} =>
        \A i \in 1 .. Len(hash_checks) :
            ~hash_checks[i].ok =>
                \E j \in 1 .. Len(update_files) :
                    /\ ~update_files[j].execute
                    /\ update_files[j].filename = hash_checks[i].path

\* The bytes of a block as send_command writes them: its lines, the newlines
\* that join them and the newline at the end.
RECURSIVE SumLen(_, _)
SumLen(block, i) == IF i > Len(block) THEN 0 ELSE block[i].len + SumLen(block, i + 1)

BlockBytes(block) == SumLen(block, 1) + (Len(block) - 1) + 1

\* C15: every script a transfer submits is at most COMMAND_CHUNK_SIZE bytes
\* long, the joining newlines and the final newline counted.
C15_BlocksWithinLimit ==
    tpc = "send" =>
        \A i \in 1 .. Len(script) : BlockBytes(script[i]) <= COMMAND_CHUNK_SIZE

\* The file lines of a block are whole files: every open is followed, in the
\* block, by its w lines and its close before another open.
RECURSIVE WholeFiles(_, _, _)
WholeFiles(block, i, inFile) ==
    IF i > Len(block) THEN ~inFile
    ELSE CASE block[i].op = "open" -> ~inFile /\ WholeFiles(block, i + 1, TRUE)
           [] block[i].op = "w" -> inFile /\ WholeFiles(block, i + 1, TRUE)
           [] block[i].op = "close" -> inFile /\ WholeFiles(block, i + 1, FALSE)
           [] OTHER -> WholeFiles(block, i + 1, inFile)

\* C17: the open line, the w lines and the close line of every uploaded file
\* are submitted in one block, and no open line of another file comes
\* between them.
C17_FileLinesInOneBlock ==
    tpc = "send" =>
        \A i \in 1 .. Len(script) : WholeFiles(script[i], 1, FALSE)

\* C16: for every limit from MinLimit to MaxLimit and every file of at most
\* MaxFileKiB KiB, the w lines carry the body in pieces of limit - 20
\* characters that together are the whole body, in order, and once the file is
\* closed the board has written exactly the bytes of the file: no w raised.
C16_ChunkedWriteIsCorrect ==
    /\ yielded = Min(offset, EncodedLen(file_size))
    /\ cpc = "closed" =>
          /\ yielded = EncodedLen(file_size)
          /\ ~w_raised
          /\ f_good
          /\ f_len = file_size

\* C21: a serial channel that fails because the device left the bus while
\* enter_bootloader_mode or restart_board was sending is swallowed: the call
\* returns and the cycle goes on; it never ends the process.
C21_DisconnectSwallowed ==
    pc \in {"enter", "restart"} => outcome # "SerialException"

\* C22: once enter_bootloader_mode has returned, the transport no longer
\* holds its channel open, so that the next call on it opens a new channel
\* and enters raw mode again.
C22_InvalidatedAfterBootloader ==
    (last.op = "enter_bootloader_mode" /\ last.result = "returned") => last.r \notin serOpen

\* =============================================================
\* interactive.py: select_software after the download, and
\* validate_update_file on the downloaded file.
\*
\* A file is a sequence of characters. "a" is an ASCII character, "u2" and
\* "u3" are characters whose UTF-8 encodings take 2 and 3 bytes, "\n" and " "
\* are white space. The signature line is the three characters of SigLine;
\* what json.loads makes of it is sig_data.
MaxContent == 3
MaxTrailer == 2

SigLine == <<"{", "s", "}">>

\* len(c.encode("utf-8"))
Width(c) == CASE c = "u2" -> 2 [] c = "u3" -> 3 [] OTHER -> 1

\* The size of a text in bytes: f.tell() at the end, len() of a bytes line.
RECURSIVE ByteLen(_)
ByteLen(t) == IF t = <<>> THEN 0 ELSE Width(Head(t)) + ByteLen(Tail(t))

\* str.strip() and bytes.strip()
IsSpace(c) == c \in {" ", "\n"}

RECURSIVE LStrip(_)
LStrip(t) == IF t # <<>> /\ IsSpace(Head(t)) THEN LStrip(Tail(t)) ELSE t

RECURSIVE RStrip(_)
RStrip(t) ==
    IF t # <<>> /\ IsSpace(t[Len(t)]) THEN RStrip(SubSeq(t, 1, Len(t) - 1)) ELSE t

Strip(t) == LStrip(RStrip(t))

\* The last line of a text: what follows its last "\n".
RECURSIVE LastLine(_)
LastLine(t) ==
    IF t = <<>> \/ t[Len(t)] = "\n" THEN <<>>
    ELSE Append(LastLine(SubSeq(t, 1, Len(t) - 1)), t[Len(t)])

\* read_last_significant_line: the lines from the last to the first, each
\* stripped, the first that is not empty; <<>> stands for the ValueError of a
\* file without one.
read_last_significant_line(t) == LStrip(LastLine(RStrip(t)))

\* f.read(n) of a file opened in text mode: n characters, all of them when n
\* is negative.
ReadText(t, n) == IF n < 0 THEN t ELSE SubSeq(t, 1, Min(n, Len(t)))

\* content_end = file_size - (len(last_line_bytes) + 1)
content_end(t) == ByteLen(t) - (ByteLen(read_last_significant_line(t)) + 1)

\* content = f.read(content_end).strip()
HashedText(t) == Strip(ReadText(t, content_end(t)))

\* rsa.verify(calculated_hash, signature, public_key) returns: the signature
\* was made with the private half of the embedded key over this message.
Verifies_any_key(message, signature) ==
    signature[1] = "sig" /\ sha256(signature[3]) = message
Verifies(message, signature) ==
    signature[1] = "sig" /\ signature[2] = "embedded" /\ sha256(signature[3]) = message

\* calculated_hash != expected_hash, with expected_hash = unhexlify(sha256 field)
HashMismatch(calculated_hash, field) ==
    ~(field[1] = "hex" /\ sha256(field[2]) = calculated_hash)

\* validate_update_file: "True", "False", or the exception that leaves it.
validate_update_file(t, sig) ==
    IF read_last_significant_line(t) = <<>> THEN "ValueError"
    ELSE IF sig.json = "malformed" THEN "JSONDecodeError"
    ELSE IF sig.sha256[1] = "malformed" THEN "binascii.Error"
    ELSE IF sig.signature[1] = "malformed" THEN "binascii.Error"
    ELSE IF HashMismatch(sha256(HashedText(t)), sig.sha256) THEN "False"
    ELSE IF ~Verifies(sha256(HashedText(t)), sig.signature) THEN "False"
    ELSE "True"

\* if validate_update_file(temp_file.name):
Accepts_always(v) == TRUE
Accepts(v) == v = "True"

\* The bundles a download can deliver: content, newline, signature line, and
\* what follows it. The content of a bundle is lines of JSON and base64: it
\* neither begins nor ends with white space.
ContentChars == {"a", "u2", "u3", "\n"}
Contents ==
    { c \in SeqsUpTo(ContentChars, MaxContent) :
          c # <<>> /\ ~IsSpace(c[1]) /\ ~IsSpace(c[Len(c)]) }
Trailers == SeqsUpTo({"\n", " "}, MaxTrailer)
Signed == { <<"other">> }

Bundle(c, tr) == c \o <<"\n">> \o SigLine \o tr

\* The signature lines: the digest and the signature of the content or of
\* another text, by the holder of the embedded key or by someone else, or
\* fields that are not hexadecimal, not base64, or a line that is not JSON.
SigDatas(c) ==
    { [json |-> "object", sha256 |-> h, signature |-> g] :
          h \in {<<"hex", c>>, <<"malformed">>} \cup { <<"hex", o>> : o \in Signed },
          g \in {<<"sig", "embedded", c>>, <<"sig", "other", c>>, <<"malformed">>}
                \cup { <<"sig", "embedded", o>> : o \in Signed } }
    \cup { [json |-> "malformed", sha256 |-> <<"none">>, signature |-> <<"none">>] }

\* validate_update_file(temp_file.name)
ValidateUpdateFile ==
    /\ outcome = "running"
    /\ spc = "downloaded"
    /\ valid' = validate_update_file(temp_file, sig_data)
    /\ hashed' = HashedText(temp_file)
    /\ spc' = "validated"
    /\ UNCHANGED <<software_format, temp_file, sig_data>>
    /\ UNCHANGED <<benchVars, transferVars, callVars, chunkVars>>

\* return temp_file.name
SelectReturn ==
    /\ outcome = "running"
    /\ spc = "validated"
    /\ valid \notin {"ValueError", "JSONDecodeError", "binascii.Error"}
    /\ Accepts(valid)
    /\ spc' = "returned"
    /\ UNCHANGED <<software_format, temp_file, sig_data, valid, hashed>>
    /\ UNCHANGED <<benchVars, transferVars, callVars, chunkVars>>

\* else: os.remove(temp_file.name); graceful_exit()
SelectReject ==
    /\ outcome = "running"
    /\ spc = "validated"
    /\ valid \notin {"ValueError", "JSONDecodeError", "binascii.Error"}
    /\ ~Accepts(valid)
    /\ temp_file' = <<>>
    /\ graceful_exit(FALSE)
    /\ spc' = "exited"
    /\ UNCHANGED <<software_format, sig_data, valid, hashed>>
    /\ UNCHANGED <<boardVars, waitVars, pipeVars>>
    /\ UNCHANGED <<transferVars, callVars, chunkVars>>

\* validate_update_file raised: nothing in select_software catches it.
SelectRaise ==
    /\ outcome = "running"
    /\ spc = "validated"
    /\ valid \in {"ValueError", "JSONDecodeError", "binascii.Error"}
    /\ outcome' = valid
    /\ spc' = "raised"
    /\ UNCHANGED <<software_format, temp_file, sig_data, valid, hashed>>
    /\ UNCHANGED <<boardVars, rayVars, waitVars, pipeVars, prompted>>
    /\ UNCHANGED <<transferVars, callVars, chunkVars>>

InitSelect ==
    /\ mode = [b \in Boards |-> "runtime"]
    /\ nxt = [b \in Boards |-> "runtime"]
    /\ vol = [b \in Boards |-> 0]
    /\ pending = [b \in Boards |-> "none"]
    /\ log = [b \in Boards |-> <<>>]
    /\ instances = {}
    /\ serOpen = {}
    /\ wpc = "idle"
    /\ wpred = "none"
    /\ wtimeout = None
    /\ elapsed = 0
    /\ polls = 0
    /\ dots = 0
    /\ lastVal = FALSE
    /\ everTruthy = FALSE
    /\ seen = {}
    /\ pc = "select_software"
    /\ initial_drives = 0
    /\ initial_boards = 0
    /\ bootloader_drives = {}
    /\ todo = {}
    /\ boards = {}
    /\ extract_dir = FALSE
    /\ outcome = "running"
    /\ prompted = FALSE
    /\ NoTransfer
    /\ NoCall
    /\ NoChunk
    /\ software_format = "unread"
    /\ \E c \in Contents, tr \in Trailers :
          /\ temp_file = Bundle(c, tr)
          /\ sig_data \in SigDatas(c)
    /\ spc = "downloaded"
    /\ valid = "none"
    /\ hashed = <<>>

NextSelect ==
    \/ ValidateUpdateFile
    \/ SelectReturn
    \/ SelectReject
    \/ SelectRaise

SpecSelect == InitSelect /\ [][NextSelect]_vars

\* =============================================================
\* ray.py: the paths of the script lines, for file names of any shape.
\* get_files_to_update puts the leading slash on the caller's list, and
\* generate_transfer_script writes the lines of the files.
MaxName == 4

PathChars == {"/", "\\", "a"}

\* The file names a bundle entry can carry: slashes and backslashes anywhere
\* before the last character.
PathNames ==
    { n \in SeqsUpTo(PathChars, MaxName) : n # <<>> /\ n[Len(n)] = "a" }

\* get_files_to_update: the first loop, on the caller's list.
PathsNormalize ==
    /\ pc = "paths"
    /\ tpc = "start"
    /\ update_files' = NormalizedFiles(update_files)
    /\ tpc' = "generate"
    /\ UNCHANGED <<bdirs, bfiles, bf, hash_checks, executed, pass, results, board_index,
                   required_files, script, sent, reply>>
    /\ UNCHANGED <<benchVars, callVars, chunkVars, bundleVars>>

\* generate_transfer_script(files_to_upload): every line of every file.
PathsGenerate ==
    /\ pc = "paths"
    /\ tpc = "generate"
    /\ script' = generate_transfer_script(update_files)
    /\ tpc' = "generated"
    /\ UNCHANGED <<update_files, bdirs, bfiles, bf, hash_checks, executed, pass, results,
                   board_index, required_files, sent, reply>>
    /\ UNCHANGED <<benchVars, callVars, chunkVars, bundleVars>>

InitPaths ==
    /\ mode = [b \in Boards |-> "runtime"]
    /\ nxt = [b \in Boards |-> "runtime"]
    /\ vol = [b \in Boards |-> 0]
    /\ pending = [b \in Boards |-> "none"]
    /\ log = [b \in Boards |-> <<>>]
    /\ instances = {1}
    /\ serOpen = {1}
    /\ wpc = "idle"
    /\ wpred = "none"
    /\ wtimeout = None
    /\ elapsed = 0
    /\ polls = 0
    /\ dots = 0
    /\ lastVal = FALSE
    /\ everTruthy = FALSE
    /\ seen = {}
    /\ pc = "paths"
    /\ initial_drives = 0
    /\ initial_boards = 0
    /\ bootloader_drives = {}
    /\ todo = {}
    /\ boards = {}
    /\ extract_dir = FALSE
    /\ outcome = "running"
    /\ prompted = FALSE
    /\ \E n \in PathNames, x \in BOOLEAN :
          update_files = <<[filename |-> n, execute |-> x, body |-> "x"]>>
    /\ bdirs = {}
    /\ bfiles = <<>>
    /\ bf = [st |-> "none", path |-> <<>>]
    /\ hash_checks = <<>>
    /\ executed = <<>>
    /\ tpc = "start"
    /\ pass = 1
    /\ results = <<>>
    /\ board_index = <<>>
    /\ required_files = {}
    /\ script = <<>>
    /\ sent = <<>>
    /\ reply = <<>>
    /\ NoCall
    /\ NoChunk
    /\ NoBundle

NextPaths ==
    \/ PathsNormalize
    \/ PathsGenerate

SpecPaths == InitPaths /\ [][NextPaths]_vars

TrueContent(t) ==
    LET body == RStrip(t)
    IN SubSeq(body, 1, Len(body) - Len(LastLine(body)) - 1)

\* C24: validate_update_file returns true only if the sha256 field of the
\* signature line is the SHA-256 of the bundle content and the signature field
\* is a signature of the embedded key over that digest.
C24_TrueOnlyIfHashAndSignature ==
    valid = "True" =>
        /\ sig_data.sha256[1] = "hex"
        /\ sha256(sig_data.sha256[2]) = sha256(TrueContent(temp_file))
        /\ sha256(hashed) = sha256(TrueContent(temp_file))
        /\ sig_data.signature[1] = "sig"
        /\ sig_data.signature[2] = "embedded"
        /\ sha256(sig_data.signature[3]) = sha256(TrueContent(temp_file))

C24_Witness == valid = "True" /\ spc = "returned" /\ Len(temp_file) > Len(hashed) + Len(SigLine) + 1

\* The signature line is not the one the holder of the embedded key made for
\* this content.
Corrupted ==
    \/ sig_data.json # "object"
    \/ sig_data.sha256[1] # "hex"
    \/ sig_data.signature[1] # "sig"
    \/ sig_data.sha256[2] # TrueContent(temp_file)
    \/ sig_data.signature[2] # "embedded"
    \/ sig_data.signature[3] # TrueContent(temp_file)

\* C25: on a bundle with a corrupted body or a corrupted signature line
\* (wrong or malformed sha256, wrong or malformed signature, malformed JSON)
\* validate_update_file returns false: it does not raise.
C25_CorruptionReturnsFalse ==
    (spc # "downloaded" /\ Corrupted) => valid = "False"

\* C26: the text validate_update_file hashes is the content of the file, for
\* every well-formed bundle, whatever white space follows the signature line
\* and whatever the byte widths of the characters of the content.
C26_HashedTextIsContent ==
    spc # "downloaded" => hashed = TrueContent(temp_file)

\* C27: select_software returns the path only when validate_update_file
\* returned true; when it did not, nothing is returned, no transport is
\* registered or open and no board has received a command.
C27_OnlyVerifiedBundleReturned ==
    /\ spc = "returned" => valid = "True"
    /\ (spc \notin {"downloaded", "validated"} /\ valid # "True") =>
           /\ spc \in {"exited", "raised"}
           /\ outcome # "running"
           /\ instances = {} /\ serOpen = {}
           /\ \A b \in Boards : log[b] = <<>> /\ pending[b] = "none"

C27_Witness == spc = "exited" /\ valid = "False" /\ sig_data.signature[2] = "other"

\* C28: a fatal error, the failed verification of the downloaded bundle among
\* them, ends the process with a status other than 0.
C28_FatalErrorNonZero ==
    (spc \in {"exited", "raised"} /\ valid # "True") => outcome # "exit0"

\* C29: the temporary directory of flash_software exists only while the cycle
\* is running inside its try block: however the process ends (completion, a
\* malformed entry, a transport error, the reboot wait's timeout, an
\* interrupt), the directory is gone.
C29_TempDirRemoved ==
    extract_dir => (outcome = "running" /\ pc \in SoftwareTry)

C29_Witness ==
    /\ pc = "wait_reboot" /\ outcome = "TimeoutError" /\ ~extract_dir
    /\ software_format = "1.0"

\* The lines of a script that name a path.
PathOps == {"mdir", "open", "hash_check", "execute_file"}

\* C30: every path of an mdir, open, hash_check or execute_file line begins
\* with one slash and no more, and holds no backslash, whatever the file name
\* of the bundle entry.
C30_PathsCanonical ==
    \A i \in 1..Len(script) :
        script[i].op \in PathOps =>
            /\ script[i].path[1] = "/"
            /\ (Len(script[i].path) > 1 => script[i].path[2] # "/")
            /\ \A k \in 1..Len(script[i].path) : script[i].path[k] # "\\"

\* The paths the running transfer uploads.
UploadedPaths ==
    IF results = <<>> THEN {}
    ELSE { results[Len(results)].uploaded[i].filename :
              i \in 1 .. Len(results[Len(results)].uploaded) }

\* The operations of the lines a transfer emits; wipe_board's are not among them.
TransferOps == {"setup", "mdir", "open", "w", "close", "hash_check", "execute_file"}

\* C31: no step of a transfer removes or rewrites a file of the board whose
\* path is not among the uploaded files, and every line of a block is one of
\* the transfer's own operations.
C31_OtherFilesUntouched ==
    [][/\ \A p \in DOMAIN bfiles :
             p \notin UploadedPaths' => (p \in DOMAIN bfiles' /\ bfiles'[p] = bfiles[p])
       /\ \A i \in 1 .. Len(script') : \A j \in 1 .. Len(script'[i]) :
             script'[i][j].op \in TransferOps]_vars

C31_Witness ==
    /\ tpc = "returned"
    /\ UploadedPaths # {}
    /\ <<"/", "d", "/", "b">> \in DOMAIN bfiles
    /\ bfiles[<<"/", "d", "/", "b">>] = b64decode("x")

\* The images copied to a board so far.
CopyCount(b) == Cardinality({ i \in 1 .. Len(log[b]) : log[b][i] \in {"nuke", "fw"} })

FirmwareWaits == {"wait_bootloader", "wait_flash", "wait_reappear", "wait_rpi_rp2"}

\* C32: when a wait of flash_firmware finds its time over, the next step of
\* the cycle is the TimeoutError and no image is copied to any volume from
\* then on; after a timeout of the wait that follows the nuke copies no
\* board has been sent the firmware image.
C32_TimeoutStopsTheCycle ==
    [][/\ (wpc = "check" /\ TimedOut /\ pc \in FirmwareWaits) =>
             /\ outcome' = "TimeoutError" \/ (outcome' = "running" /\ wpc' = "check")
             /\ \A b \in Boards : CopyCount(b)' = CopyCount(b)
       /\ outcome = "TimeoutError" => \A b \in Boards : CopyCount(b)' = CopyCount(b)
       /\ (outcome' = "TimeoutError" /\ pc' = "wait_flash") =>
             \A b \in Boards : \A i \in 1 .. Len(log'[b]) : log'[b][i] # "fw"]_vars

C32_Witness ==
    /\ outcome = "TimeoutError" /\ pc = "wait_flash"
    /\ \E b \in Boards : CopyCount(b) = 1

\* C33: after any sequence of calls every transport whose channel is open is
\* in the registry, so that close_all closes it.
C33_OpenTransportsRegistered == serOpen \subseteq instances

\* C34: a send_command that wants output is never in one of its loops that
\* only more bytes can end once the board has sent its whole reply and is
\* silent, however the reply was cut into reads.
C34_ReadsEnd ==
    ~(rpc \in {"ack", "wait"} /\ rx = <<>> /\ last.reply \in Replies)

\* What the call has read of the reply so far.
Received == SubSeq(last.reply, 1, Len(last.reply) - Len(rx))

\* C35: the acknowledgement is recognised as soon as the bytes read hold "OK",
\* in whatever reads they came, and the text returned is what the board sent
\* after the first "OK".
C35_TextAfterFirstOK ==
    /\ (rpc = "ack" /\ last.op = "send_command") => IndexOK(Received) = 0
    /\ (rpc = "idle" /\ last.op = "send_command" /\ last.want /\ last.result = "returned") =>
           buf = SubSeq(last.reply, IndexOK(last.reply) + 2, Len(last.reply))

\* C36: a transfer returns without raising only when the board has recorded
\* a hash_check result for every file it uploaded.
C36_SuccessNeedsEveryCheck ==
    tpc = "returned" =>
        \A p \in UploadedPaths : \E i \in 1 .. Len(hash_checks) : hash_checks[i].path = p

\* The directories above a path: "/d" and "/d/e" for "/d/e/c".
AncestorDirs(p) == { SubSeq(p, 1, i - 1) : i \in { k \in 2 .. Len(p) : p[k] = "/" } }

\* C37: when the blocks of a transfer to a board with an empty filesystem have
\* run, every directory above every uploaded path exists on the board (no
\* directory is ever removed, so it existed when each open line ran).
C37_AncestorsExist ==
    (pass = 1 /\ board_index = <<>> /\ tpc = "send" /\ script = <<>>) =>
        \A p \in UploadedPaths : AncestorDirs(p) \subseteq bdirs

\* C38: the reply the final query's call parses holds the query's own output
\* and nothing of the earlier blocks': its text from the first "[" to the last
\* "]" is the list the query printed.
C38_ReplyIsTheQuerysOwn ==
    tpc \in {"returned", "raised"} =>
        /\ find(reply, "[") # 0
        /\ rfind(reply, "]") # 0
        /\ Bracketed(reply) = Printed

\* No board is connected, neither as a serial port nor as a volume.
NoBoardConnected == \A b \in Boards : mode[b] = "unplugged"

\* C39: with no board connected in either mode the cycle counts 0 and 0,
\* copies nothing and gets no further than the wait for the drive count to
\* drop, which is never satisfied and makes at most the polls its timeout
\* allows; unless the cycle is interrupted or finds no nuke image, it ends
\* there with TimeoutError.
C39_NoBoardEndsInTimeout ==
    (NoBoardConnected /\ pc # "start" /\ initial_drives = 0 /\ initial_boards = 0) =>
        /\ \A b \in Boards : log[b] = <<>> /\ pending[b] = "none"
        /\ pc \in {"enter", "wait_bootloader", "nuke", "wait_flash"}
        /\ pc = "wait_flash" =>
              /\ wpc # "returned" /\ ~everTruthy
              /\ polls <= TicksPerSecond * StepTimeout + 1
              /\ (wpc = "check" /\ polls = TicksPerSecond * StepTimeout + 1) => TimedOut
        /\ outcome \notin {"running", "KeyboardInterrupt", "exit0", "IndexError"} =>
              (outcome = "TimeoutError" /\ pc = "wait_flash")

C39_Witness ==
    /\ NoBoardConnected /\ initial_drives = 0 /\ initial_boards = 0
    /\ pc = "wait_flash" /\ outcome = "TimeoutError"
    /\ polls = TicksPerSecond * StepTimeout + 1
====
